---- MODULE Spec2Model ----
(***************************************************************************)
(* Model of the file-backed mailbox (email-tools.py: EmailTools) and of    *)
(* the panel consensus check (panel-coordinator.py: PanelCoordinator).     *)
(*                                                                         *)
(* Text that the code inspects by substring, prefix or character class is  *)
(* a sequence of one-character strings; text that the code only compares   *)
(* for equality (event type, message identifiers) is a TLA+ string.        *)
(* Python's None and the empty string are both falsy in every test the     *)
(* code makes on a string filter, so an absent string filter is the empty  *)
(* text.                                                                   *)
(***************************************************************************)
EXTENDS Integers, Sequences, FiniteSets, TLC

VARIABLES
    store,    \* queue id -> [dir : directory state, msgs : messages in iteration order]
    call,     \* the last operation and its arguments
    result,   \* what that operation returned or raised
    staged,   \* the files under tmp/ of the workflow queue, being written
    procs     \* concurrently running commands: process -> its position and locals

vars == <<store, call, result, staged, procs>>

(***************************************************************************)
(* Bounds of the model.                                                    *)
(***************************************************************************)
MaxQueue == 3
MaxPanelMsgs == 3

(***************************************************************************)
(* Text helpers.                                                           *)
(***************************************************************************)
EmptyText == <<>>

\* Python: bool(s) for a str
TruthyText(s) == Len(s) > 0

\* Python: s.startswith(p)
StartsWith(s, p) ==
    /\ Len(p) <= Len(s)
    /\ \A i \in 1..Len(p) : s[i] = p[i]

\* Python: p in s (substring test)
IsSubstring(p, s) ==
    \E off \in 0..(Len(s) - Len(p)) :
        \A i \in 1..Len(p) : s[off + i] = p[i]

\* Python: c in s for a single character c
HasChar(s, c) == \E i \in 1..Len(s) : s[i] = c

\* Python: str.lower(), on the letters the model's texts use
LowerChar(c) ==
    CASE c = "A" -> "a"
      [] c = "R" -> "r"
      [] c = "V" -> "v"
      [] c = "C" -> "c"
      [] OTHER -> c

Lower(s) == [i \in 1..Len(s) |-> LowerChar(s[i])]

\* Python: s.split('@')[0]
RECURSIVE BeforeAt(_)
BeforeAt(s) ==
    IF s = <<>> \/ Head(s) = "@" THEN <<>>
    ELSE <<Head(s)>> \o BeforeAt(Tail(s))

(***************************************************************************)
(* Time.  Timestamps are epoch seconds.                                    *)
(***************************************************************************)
SecondsPerDay == 86400
SecondsPerHour == 3600
SecondsPerMinute == 60

\* datetime.now().timestamp(), whole seconds
Now == 30 * SecondsPerDay

(***************************************************************************)
(* Messages.  A stored message is its key and its headers.  The Date       *)
(* header is either parsable, with the epoch second it denotes, or not.    *)
(***************************************************************************)
DateAt(t) == [parsable |-> TRUE, epoch |-> t]
BadDate == [parsable |-> FALSE, epoch |-> 0]

\* the headers of a message: what the writer of the message supplies
Headers(mid, frm, to, subj, date, etype, arts, wstate, irt, refs) ==
    [message_id |-> mid, from |-> frm, to |-> to, subject |-> subj, date |-> date,
     event_type |-> etype, artifacts |-> arts, workflow_state |-> wstate,
     in_reply_to |-> irt, references |-> refs]

\* a stored message: the headers under the key the maildir gave them
Stored(key, h) == [key |-> key, headers |-> h]

\* a stored message whose file cannot be read or parsed: mbox[key] or
\* _extract_metadata raises for it
Unreadable(m) == [key |-> m.key, headers |-> m.headers, unreadable |-> TRUE]

Fails(m) == "unreadable" \in DOMAIN m

ExtractMetadata_DateNow(m) ==
    [key |-> m.key,
     message_id |-> m.headers.message_id,
     from |-> m.headers.from,
     to |-> m.headers.to,
     subject |-> m.headers.subject,
     date |-> m.headers.date,
     timestamp |-> IF m.headers.date.parsable THEN m.headers.date.epoch ELSE Now,
     event_type |-> m.headers.event_type,
     artifacts |-> m.headers.artifacts,
     workflow_state |-> m.headers.workflow_state,
     in_reply_to |-> m.headers.in_reply_to,
     references |-> m.headers.references]

\* EmailTools._extract_metadata
ExtractMetadata(m) ==
    [key |-> m.key,
     message_id |-> m.headers.message_id,
     from |-> m.headers.from,
     to |-> m.headers.to,
     subject |-> m.headers.subject,
     date |-> m.headers.date,
     timestamp |-> IF m.headers.date.parsable THEN m.headers.date.epoch ELSE 0,
     event_type |-> m.headers.event_type,
     artifacts |-> m.headers.artifacts,
     workflow_state |-> m.headers.workflow_state,
     in_reply_to |-> m.headers.in_reply_to,
     references |-> m.headers.references]

(***************************************************************************)
(* The store: one directory per queue.  A directory is absent, bare (it    *)
(* exists but has no cur/new/tmp below it: what Path.mkdir leaves) or a    *)
(* maildir.  msgs is the order in which mailbox.Maildir.keys() yields the  *)
(* messages: the order of os.listdir, which is not the order of delivery.  *)
(***************************************************************************)
QueueIds == {"workflow", "P", "Q"}

EmptyQueue == [dir |-> "absent", msgs |-> <<>>]

\* EmailTools.__init__ with a path: creates the bare directory when missing
OpenTools(q) ==
    IF q.dir = "absent" THEN [q EXCEPT !.dir = "bare"] ELSE q

\* mailbox.Maildir.add: the key is unique; here the count of deliveries
FreshKey(q) == Len(q.msgs) + 1

\* the sequence s with x put at position p (1..Len(s)+1)
InsertAt(s, p, x) == SubSeq(s, 1, p - 1) \o <<x>> \o SubSeq(s, p, Len(s))

NoCall == [op |-> "none"]
NoResult == [kind |-> "none"]
Raised(e) == [kind |-> "error", error |-> e]

(***************************************************************************)
(* EmailTools._parse_since                                                 *)
(***************************************************************************)
Digits == {"0", "1", "2", "3", "4", "5", "6", "7", "8", "9"}

DigitVal(c) ==
    CASE c = "0" -> 0 [] c = "1" -> 1 [] c = "2" -> 2 [] c = "3" -> 3 [] c = "4" -> 4
      [] c = "5" -> 5 [] c = "6" -> 6 [] c = "7" -> 7 [] c = "8" -> 8 [] c = "9" -> 9

\* Python: int(s) for a text of decimal digits
RECURSIVE IntOf(_)
IntOf(s) ==
    IF s = <<>> THEN 0
    ELSE 10 * IntOf(SubSeq(s, 1, Len(s) - 1)) + DigitVal(s[Len(s)])

\* re.match(r'^(\d+)([dhm])$', since)
IsRelativeSince(s) ==
    /\ Len(s) >= 2
    /\ s[Len(s)] \in {"d", "h", "m"}
    /\ \A i \in 1..(Len(s) - 1) : s[i] \in Digits

UnitSeconds(u) ==
    CASE u = "d" -> SecondsPerDay
      [] u = "h" -> SecondsPerHour
      [] u = "m" -> SecondsPerMinute

\* datetime.fromisoformat(since).timestamp() on the absolute dates the model
\* uses; any other text is not an ISO date
IsoDates == { <<"1","9","7","0","-","0","1","-","3","0">> }

IsoEpoch(s) == 29 * SecondsPerDay

\* the days from datetime.min (0001-01-01) to the epoch
EpochDays == 719162

\* datetime.now() - timedelta(...) leaves the range of datetime when the
\* window reaches back before datetime.min; Now is a whole number of days
OutOfRange(n, unit) ==
    n > (EpochDays + Now \div SecondsPerDay) * (SecondsPerDay \div UnitSeconds(unit))

SinceFailed(e) == [ok |-> FALSE, ts |-> 0, error |-> e]

ParseSince(since) ==
    IF IsRelativeSince(since)
    THEN LET n == IntOf(SubSeq(since, 1, Len(since) - 1))
             unit == since[Len(since)]
         IN  IF OutOfRange(n, unit) THEN SinceFailed("OverflowError")
             ELSE [ok |-> TRUE, ts |-> Now - n * UnitSeconds(unit)]
    ELSE IF since \in IsoDates
    THEN [ok |-> TRUE, ts |-> IsoEpoch(since)]
    ELSE SinceFailed("ValueError")

(***************************************************************************)
(* EmailTools.search                                                       *)
(***************************************************************************)
NoLimit == [given |-> FALSE, n |-> 0]
Limit(k) == [given |-> TRUE, n |-> k]

\* Python: bool(limit) for Optional[int]
TruthyLimit(l) == l.given /\ l.n # 0

Criteria(etype, artifact, since, state, fromRole, toRole, limit) ==
    [event_type |-> etype, artifact |-> artifact, since |-> since, state |-> state,
     from_role |-> fromRole, to_role |-> toRole, limit |-> limit]

ArtifactMatches_OneWay(artifacts, pattern) ==
    \E i \in 1..Len(artifacts) : IsSubstring(pattern, artifacts[i])

\* EmailTools._artifact_matches
ArtifactMatches(artifacts, pattern) ==
    \E i \in 1..Len(artifacts) :
        IsSubstring(pattern, artifacts[i]) \/ IsSubstring(artifacts[i], pattern)

PassesFilters_NoToRole(md, c, hasCutoff, cutoff) ==
    /\ ~(hasCutoff /\ md.timestamp < cutoff)
    /\ ~(c.event_type # "" /\ md.event_type # c.event_type)
    /\ ~(TruthyText(c.artifact) /\ ~ArtifactMatches(md.artifacts, c.artifact))
    /\ ~(c.state # "" /\ md.workflow_state # c.state)
    /\ ~(TruthyText(c.from_role) /\ ~StartsWith(md.from, c.from_role))

PassesFilters_NoEventType(md, c, hasCutoff, cutoff) ==
    /\ ~(hasCutoff /\ md.timestamp < cutoff)
    /\ ~(TruthyText(c.artifact) /\ ~ArtifactMatches(md.artifacts, c.artifact))
    /\ ~(c.state # "" /\ md.workflow_state # c.state)
    /\ ~(TruthyText(c.from_role) /\ ~StartsWith(md.from, c.from_role))
    /\ ~(TruthyText(c.to_role) /\ ~StartsWith(md.to, c.to_role))

\* the filters of the scan loop; cutoff is since_timestamp, hasCutoff its truthiness
PassesFilters(md, c, hasCutoff, cutoff) ==
    /\ ~(hasCutoff /\ md.timestamp < cutoff)
    /\ ~(c.event_type # "" /\ md.event_type # c.event_type)
    /\ ~(TruthyText(c.artifact) /\ ~ArtifactMatches(md.artifacts, c.artifact))
    /\ ~(c.state # "" /\ md.workflow_state # c.state)
    /\ ~(TruthyText(c.from_role) /\ ~StartsWith(md.from, c.from_role))
    /\ ~(TruthyText(c.to_role) /\ ~StartsWith(md.to, c.to_role))

RECURSIVE ScanFrom_FailStops(_, _, _, _, _, _)
ScanFrom_FailStops(msgs, i, results, c, hasCutoff, cutoff) ==
    IF i > Len(msgs) THEN results
    ELSE IF Fails(msgs[i]) THEN results
    ELSE LET md == ExtractMetadata(msgs[i]) IN
         IF ~PassesFilters(md, c, hasCutoff, cutoff)
         THEN ScanFrom_FailStops(msgs, i + 1, results, c, hasCutoff, cutoff)
         ELSE LET r2 == Append(results, md) IN
              IF TruthyLimit(c.limit) /\ Len(r2) >= c.limit.n
              THEN r2
              ELSE ScanFrom_FailStops(msgs, i + 1, r2, c, hasCutoff, cutoff)

\* the scan loop from message i on: skip a message whose processing fails,
\* append each match, stop at the limit
RECURSIVE ScanFrom(_, _, _, _, _, _)
ScanFrom(msgs, i, results, c, hasCutoff, cutoff) ==
    IF i > Len(msgs) THEN results
    ELSE IF Fails(msgs[i]) THEN ScanFrom(msgs, i + 1, results, c, hasCutoff, cutoff)
    ELSE LET md == ExtractMetadata(msgs[i]) IN
         IF ~PassesFilters(md, c, hasCutoff, cutoff)
         THEN ScanFrom(msgs, i + 1, results, c, hasCutoff, cutoff)
         ELSE LET r2 == Append(results, md) IN
              IF TruthyLimit(c.limit) /\ Len(r2) >= c.limit.n
              THEN r2
              ELSE ScanFrom(msgs, i + 1, r2, c, hasCutoff, cutoff)

\* list.sort(key=timestamp, reverse=True): stable, so records with equal
\* timestamps keep the order they were appended in
RECURSIVE InsertDesc(_, _)
InsertDesc(sorted, md) ==
    IF sorted = <<>> THEN <<md>>
    ELSE IF Head(sorted).timestamp >= md.timestamp
         THEN <<Head(sorted)>> \o InsertDesc(Tail(sorted), md)
         ELSE <<md>> \o sorted

RECURSIVE SortDescFrom(_, _, _)
SortDescFrom(s, i, acc) ==
    IF i > Len(s) THEN acc ELSE SortDescFrom(s, i + 1, InsertDesc(acc, s[i]))

\* mutant of SortByTimestampDesc: the results are returned in scan order
SortByTimestampDesc_Unsorted(s) == s

SortByTimestampDesc(s) == SortDescFrom(s, 1, <<>>)

Listed(items) == [kind |-> "list", items |-> items]

\* search on an EmailTools whose directory is in state q
SearchOp(q, c) ==
    LET since == IF TruthyText(c.since) THEN ParseSince(c.since) ELSE [ok |-> TRUE, ts |-> 0]
        hasCutoff == TruthyText(c.since) /\ since.ts # 0
    IN  IF q.dir = "absent" THEN Raised("NoSuchMailboxError")
        ELSE IF ~since.ok THEN Raised(since.error)
        ELSE IF q.dir = "bare" THEN Raised("FileNotFoundError")
        ELSE Listed(SortByTimestampDesc(ScanFrom(q.msgs, 1, <<>>, c, hasCutoff, since.ts)))

\* EmailTools.list_messages
ListOp(q, etype, limit) ==
    SearchOp(q, Criteria(etype, EmptyText, EmptyText, "", EmptyText, EmptyText, limit))

(***************************************************************************)
(* EmailTools.get_thread                                                   *)
(***************************************************************************)
Range(s) == { s[i] : i \in 1..Len(s) }

RECURSIVE ThreadScanFrom_EmptyIds(_, _, _, _)
ThreadScanFrom_EmptyIds(msgs, i, known, acc) ==
    IF i > Len(msgs) THEN acc
    ELSE IF Fails(msgs[i]) THEN ThreadScanFrom_EmptyIds(msgs, i + 1, known, acc)
    ELSE LET h == msgs[i].headers
             hit == \/ h.message_id \in known
                    \/ h.in_reply_to \in known
                    \/ \E r \in Range(h.references) : r \in known
         IN  IF hit
             THEN ThreadScanFrom_EmptyIds(msgs, i + 1,
                                 known \cup {h.message_id, h.in_reply_to}
                                       \cup Range(h.references),
                                 Append(acc, ExtractMetadata(msgs[i])))
             ELSE ThreadScanFrom_EmptyIds(msgs, i + 1, known, acc)

\* the single pass over the queue: a message whose processing fails is
\* skipped; a message joins the thread when one of its identifiers is already
\* known, and then makes its own identifiers known
RECURSIVE ThreadScanFrom(_, _, _, _)
ThreadScanFrom(msgs, i, known, acc) ==
    IF i > Len(msgs) THEN acc
    ELSE IF Fails(msgs[i]) THEN ThreadScanFrom(msgs, i + 1, known, acc)
    ELSE LET h == msgs[i].headers
             hit == \/ h.message_id \in known
                    \/ h.in_reply_to \in known
                    \/ \E r \in Range(h.references) : r \in known
         IN  IF hit
             THEN ThreadScanFrom(msgs, i + 1,
                                 known \cup ({h.message_id, h.in_reply_to} \ {""})
                                       \cup Range(h.references),
                                 Append(acc, ExtractMetadata(msgs[i])))
             ELSE ThreadScanFrom(msgs, i + 1, known, acc)

\* list.sort(key=timestamp): stable, ascending
RECURSIVE InsertAsc(_, _)
InsertAsc(sorted, md) ==
    IF sorted = <<>> THEN <<md>>
    ELSE IF Head(sorted).timestamp <= md.timestamp
         THEN <<Head(sorted)>> \o InsertAsc(Tail(sorted), md)
         ELSE <<md>> \o sorted

RECURSIVE SortAscFrom(_, _, _)
SortAscFrom(s, i, acc) ==
    IF i > Len(s) THEN acc ELSE SortAscFrom(s, i + 1, InsertAsc(acc, s[i]))

SortByTimestampAsc_Unsorted(s) == s

SortByTimestampAsc(s) == SortAscFrom(s, 1, <<>>)

\* get_thread on an EmailTools whose directory is in state q
ThreadOp(q, seed) ==
    IF q.dir = "absent" THEN Raised("NoSuchMailboxError")
    ELSE IF q.dir = "bare" THEN Raised("FileNotFoundError")
    ELSE Listed(SortByTimestampAsc(ThreadScanFrom(q.msgs, 1, {seed}, <<>>)))

(***************************************************************************)
(* PanelCoordinator.check_consensus                                        *)
(***************************************************************************)
Word_approve == <<"a", "p", "p", "r", "o", "v", "e">>
Word_reject == <<"r", "e", "j", "e", "c", "t">>
Word_revision == <<"r", "e", "v", "i", "s", "i", "o", "n">>
Word_clarification == <<"c", "l", "a", "r", "i", "f", "i", "c", "a", "t", "i", "o", "n">>

\* the member name of a sender address
MemberName(from) == IF HasChar(from, "@") THEN BeforeAt(from) ELSE from

VoteOf_RejectFirst(subject) ==
    LET s == Lower(subject) IN
    IF IsSubstring(Word_reject, s) THEN "reject"
    ELSE IF IsSubstring(Word_approve, s) THEN "approve"
    ELSE IF IsSubstring(Word_revision, s) \/ IsSubstring(Word_clarification, s)
         THEN "request-revision"
    ELSE ""

\* the vote a subject line stands for; "" when it holds no keyword
VoteOf(subject) ==
    LET s == Lower(subject) IN
    IF IsSubstring(Word_approve, s) THEN "approve"
    ELSE IF IsSubstring(Word_reject, s) THEN "reject"
    ELSE IF IsSubstring(Word_revision, s) \/ IsSubstring(Word_clarification, s)
         THEN "request-revision"
    ELSE ""

DictPut_KeepFirst(d, k, v) ==
    IF \E i \in 1..Len(d) : d[i].member = k THEN d
    ELSE Append(d, [member |-> k, vote |-> v])

DictPut_PerMessage(d, k, v) == Append(d, [member |-> k, vote |-> v])

\* member_decisions[k] = v on a dict kept as its items in insertion order
DictPut(d, k, v) ==
    IF \E i \in 1..Len(d) : d[i].member = k
    THEN [i \in 1..Len(d) |-> IF d[i].member = k THEN [member |-> k, vote |-> v] ELSE d[i]]
    ELSE Append(d, [member |-> k, vote |-> v])

DictRemove(d, k) == SelectSeq(d, LAMBDA e : e.member # k)

RECURSIVE CollectVotes_BlankClears(_, _, _)
CollectVotes_BlankClears(decisions, i, d) ==
    IF i > Len(decisions) THEN d
    ELSE LET vote == VoteOf(decisions[i].subject) IN
         CollectVotes_BlankClears(decisions, i + 1,
                      IF vote = "" THEN DictRemove(d, MemberName(decisions[i].from))
                      ELSE DictPut(d, MemberName(decisions[i].from), vote))

\* the loop over the decision messages, in the order search returned them
RECURSIVE CollectVotes(_, _, _)
CollectVotes(decisions, i, d) ==
    IF i > Len(decisions) THEN d
    ELSE LET vote == VoteOf(decisions[i].subject) IN
         CollectVotes(decisions, i + 1,
                      IF vote = "" THEN d
                      ELSE DictPut(d, MemberName(decisions[i].from), vote))

\* member_decisions.values()
DictValues(d) == [i \in 1..Len(d) |-> d[i].vote]

DictHas(d, k) == \E i \in 1..Len(d) : d[i].member = k

DictGet(d, k) == d[CHOOSE i \in 1..Len(d) : d[i].member = k].vote

CountOf(vals, v) == Cardinality({ i \in 1..Len(vals) : vals[i] = v })

FirstIndex(vals, v) == CHOOSE i \in 1..Len(vals) : vals[i] = v /\ \A j \in 1..(i - 1) : vals[j] # v

\* Counter(vals).most_common(1)[0][0]: the largest count, the first counted on a tie
MostCommon(vals) ==
    CHOOSE v \in Range(vals) :
        \A w \in Range(vals) :
            \/ CountOf(vals, v) > CountOf(vals, w)
            \/ CountOf(vals, v) = CountOf(vals, w) /\ FirstIndex(vals, v) <= FirstIndex(vals, w)

NoConsensus == [kind |-> "no-consensus"]
Verdict(v) == [kind |-> "verdict", vote |-> v]

\* a panel of the configuration file: its member list, first member primary
PanelConfig(members) == [members |-> members]

\* mutant of DecideConsensus: agreement is not required
DecideConsensus_First(d) == Verdict(DictValues(d)[1])

\* decision_model == 'consensus'
DecideConsensus(d) ==
    IF Cardinality(Range(DictValues(d))) = 1
    THEN Verdict(DictValues(d)[1])
    ELSE NoConsensus

\* mutant of DecideMajority: half of the votes is enough
DecideMajority_Half(d) ==
    LET vals == DictValues(d)
        top == MostCommon(vals)
    IN  IF 2 * CountOf(vals, top) >= Len(d) THEN Verdict(top) ELSE NoConsensus

\* decision_model == 'majority': most_common[1] > total / 2
DecideMajority(d) ==
    LET vals == DictValues(d)
        top == MostCommon(vals)
    IN  IF 2 * CountOf(vals, top) > Len(d) THEN Verdict(top) ELSE NoConsensus

\* mutant of DecidePrimary: falls back to the other members' agreement
DecidePrimary_Fallback(d, config, panel) ==
    IF panel \notin DOMAIN config THEN Raised("ValueError")
    ELSE LET members == config[panel].members IN
         IF members # <<>> /\ DictHas(d, members[1])
         THEN Verdict(DictGet(d, members[1]))
         ELSE DecideConsensus(d)

\* decision_model == 'primary-decides'
DecidePrimary(d, config, panel) ==
    IF panel \notin DOMAIN config THEN Raised("ValueError")
    ELSE LET members == config[panel].members IN
         IF members # <<>> /\ DictHas(d, members[1])
         THEN Verdict(DictGet(d, members[1]))
         ELSE NoConsensus

DecisionCriteria_NoSince ==
    Criteria("panel-decision", EmptyText, EmptyText, "", EmptyText, EmptyText, NoLimit)

DecisionCriteria ==
    Criteria("panel-decision", EmptyText, <<"7", "d">>, "", EmptyText, EmptyText, NoLimit)

\* check_consensus on the panel's queue directory in state q
ConsensusOp(q, config, panel, model) ==
    LET decisions == SearchOp(q, DecisionCriteria) IN
    IF decisions.kind = "error" THEN decisions
    ELSE IF decisions.items = <<>> THEN NoConsensus
    ELSE LET d == CollectVotes(decisions.items, 1, <<>>) IN
         IF d = <<>> THEN NoConsensus
         ELSE IF model = "consensus" THEN DecideConsensus(d)
         ELSE IF model = "majority" THEN DecideMajority(d)
         ELSE IF model = "primary-decides" THEN DecidePrimary(d, config, panel)
         ELSE Raised("ValueError")

(***************************************************************************)
(* Operations on the store.  Each action is one whole command: it builds   *)
(* its EmailTools (which may create the bare directory), runs, and leaves  *)
(* its arguments in call and its outcome in result.  The commands are      *)
(* synchronous and run one at a time: a command starts when no other is    *)
(* pending, and Return is its process handing back the outcome.            *)
(***************************************************************************)
\* the commands that may run concurrently: two senders and one scanner
Writers == {"w1", "w2"}
Readers == {"r"}
Procs == Writers \cup Readers

NotStarted == [pc |-> "start"]

Init ==
    /\ store = [q \in QueueIds |-> EmptyQueue]
    /\ call = NoCall
    /\ result = NoResult
    /\ staged = {}
    /\ procs = [p \in Procs |-> NotStarted]

SendOp_Overwrite(q, h, pos) ==
    IF q.dir = "bare"
    THEN [queue |-> q, result |-> Raised("FileNotFoundError")]
    ELSE [queue |-> [dir |-> "maildir",
                     msgs |-> IF pos <= Len(q.msgs)
                              THEN [q.msgs EXCEPT ![pos] = Stored(FreshKey(q), h)]
                              ELSE Append(q.msgs, Stored(FreshKey(q), h))],
          result |-> [kind |-> "key", key |-> FreshKey(q)]]

\* EmailTools().send(file, path): mailbox.Maildir(path, create=True).add(msg).
\* A missing directory is created as a maildir; a bare one has no tmp/ to
\* write into.  pos is where os.listdir will yield the new file.
SendOp(q, h, pos) ==
    IF q.dir = "bare"
    THEN [queue |-> q, result |-> Raised("FileNotFoundError")]
    ELSE [queue |-> [dir |-> "maildir",
                     msgs |-> InsertAt(q.msgs, pos, Stored(FreshKey(q), h))],
          result |-> [kind |-> "key", key |-> FreshKey(q)]]

Idle == call.op = "none"

Send(qid, h, bound) ==
    /\ Idle
    /\ Len(store[qid].msgs) < bound
    /\ \E pos \in 1..(Len(store[qid].msgs) + 1) :
          LET out == SendOp(store[qid], h, pos) IN
          /\ store' = [store EXCEPT ![qid] = out.queue]
          /\ result' = out.result
    /\ call' = [op |-> "send", queue |-> qid]
    /\ UNCHANGED <<staged, procs>>

\* EmailTools(path).search(...)
Search(qid, c) ==
    /\ Idle
    /\ store' = [store EXCEPT ![qid] = OpenTools(@)]
    /\ call' = [op |-> "search", queue |-> qid, criteria |-> c]
    /\ result' = SearchOp(OpenTools(store[qid]), c)
    /\ UNCHANGED <<staged, procs>>

\* EmailTools(path).list_messages(event_type, limit)
ListMessages(qid, etype, limit) ==
    /\ Idle
    /\ store' = [store EXCEPT ![qid] = OpenTools(@)]
    /\ call' = [op |-> "list", queue |-> qid,
                criteria |-> Criteria(etype, EmptyText, EmptyText, "", EmptyText, EmptyText, limit)]
    /\ result' = ListOp(OpenTools(store[qid]), etype, limit)
    /\ UNCHANGED <<staged, procs>>

\* EmailTools(path).get_thread(message_id)
GetThread(qid, seed) ==
    /\ Idle
    /\ store' = [store EXCEPT ![qid] = OpenTools(@)]
    /\ call' = [op |-> "thread", queue |-> qid, seed |-> seed]
    /\ result' = ThreadOp(OpenTools(store[qid]), seed)
    /\ UNCHANGED <<staged, procs>>

PanelQueue_Shared(panel) == "workflow"

\* the queue of a panel: the directory ~/Maildir/panels/<panel>
PanelQueue(panel) == panel

\* check_consensus against the store st: the outcome of the check
CheckOutcome(st, panel, model, config) ==
    ConsensusOp(OpenTools(st[PanelQueue(panel)]), config, panel, model)

\* PanelCoordinator(config).check_consensus(panel, model): the panel's queue is
\* opened by EmailTools(path)
CheckConsensus(panel, model, config) ==
    /\ Idle
    /\ store' = [store EXCEPT ![PanelQueue(panel)] = OpenTools(@)]
    /\ call' = [op |-> "check_consensus", queue |-> PanelQueue(panel), panel |-> panel,
                model |-> model, config |-> config]
    /\ result' = CheckOutcome(store, panel, model, config)
    /\ UNCHANGED <<staged, procs>>

(***************************************************************************)
(* The panel coordinator's commands.  check-consensus is one step; review  *)
(* runs each member's session as a child process and waits for it, so it   *)
(* is a sequence of steps whose position is kept in call: the members      *)
(* spawned so far, whether a session is running, the exit codes received.  *)
(***************************************************************************)
\* the keys of config['roles']
Roles == {"spec-reviewer"}

ReviewPanel(members, role, model) ==
    [members |-> members, role_type |-> role, decision_model |-> model]

\* a panel entry without a decision_model key
ReviewPanelDefault(members, role) == [members |-> members, role_type |-> role]

DecisionModelOf_Default(pc) == "consensus"

DecisionModelOf_Primary(pc) ==
    IF "decision_model" \in DOMAIN pc THEN pc.decision_model ELSE "primary-decides"

\* panel_config.get('decision_model', 'consensus')
DecisionModelOf(pc) ==
    IF "decision_model" \in DOMAIN pc THEN pc.decision_model ELSE "consensus"

ExitCode_AnyVerdict(outcome) == IF outcome.kind = "verdict" THEN 0 ELSE 1

\* return 0 if decision == 'approve' else 1; no decision and an exception
\* that reaches main return 1
ExitCode(outcome) == IF outcome = Verdict("approve") THEN 0 ELSE 1

Exit(outcome) == [kind |-> "exit", code |-> ExitCode(outcome), outcome |-> outcome]

\* main, check-consensus: the panel's entry, its decision model, the check
CheckConsensusCommand(panel, config) ==
    /\ Idle
    /\ call' = [op |-> "check-consensus", queue |-> PanelQueue(panel), panel |-> panel,
                config |-> config]
    /\ IF panel \notin DOMAIN config
       THEN /\ result' = Exit(Raised("ValueError"))
            /\ UNCHANGED store
       ELSE /\ store' = [store EXCEPT ![PanelQueue(panel)] = OpenTools(@)]
            /\ result' = Exit(CheckOutcome(store, panel, DecisionModelOf(config[panel]), config))
    /\ UNCHANGED <<staged, procs>>

ReviewCall(panel, config, members, phase) ==
    [op |-> "review", queue |-> PanelQueue(panel), panel |-> panel, config |-> config,
     members |-> members, spawned |-> <<>>, codes |-> <<>>, running |-> FALSE,
     phase |-> phase]

\* main, review: coordinate_review_panel reads the panel's entry
ReviewStart(panel, config) ==
    /\ Idle
    /\ IF panel \notin DOMAIN config
       THEN /\ call' = ReviewCall(panel, config, <<>>, "aborted")
            /\ result' = Exit(Raised("ValueError"))
       ELSE /\ call' = ReviewCall(panel, config, config[panel].members, "spawning")
            /\ result' = NoResult
    /\ UNCHANGED <<store, staged, procs>>

Reviewing == call.op = "review" /\ call.phase = "spawning"

\* for member in members: spawn_panel_member, up to subprocess.run
SpawnMember ==
    /\ Reviewing /\ ~call.running
    /\ Len(call.spawned) < Len(call.members)
    /\ IF call.config[call.panel].role_type \notin Roles
       THEN /\ call' = [call EXCEPT !.phase = "aborted"]
            /\ result' = Exit(Raised("ValueError"))
       ELSE /\ call' = [call EXCEPT !.spawned = Append(@, call.members[Len(@) + 1]),
                                    !.running = TRUE]
            /\ UNCHANGED result
    /\ UNCHANGED <<store, staged, procs>>

\* the member's session delivers a message to the panel's queue
MemberSend(h, bound) ==
    /\ Reviewing /\ call.running
    /\ Len(store[call.queue].msgs) < bound
    /\ \E pos \in 1..(Len(store[call.queue].msgs) + 1) :
          store' = [store EXCEPT ![call.queue] = SendOp(@, h, pos).queue]
    /\ UNCHANGED <<call, result, staged, procs>>

\* subprocess.run returns: the exit code is logged and returned, and the
\* loop of coordinate_review_panel does not read it
MemberReturns(code) ==
    /\ Reviewing /\ call.running
    /\ call' = [call EXCEPT !.codes = Append(@, code), !.running = FALSE]
    /\ UNCHANGED <<store, result, staged, procs>>

\* subprocess.run raises TimeoutExpired after 600 seconds: the exception
\* leaves coordinate_review_panel and main returns 1
MemberTimesOut ==
    /\ Reviewing /\ call.running
    /\ call' = [call EXCEPT !.running = FALSE, !.phase = "aborted"]
    /\ result' = Exit(Raised("TimeoutExpired"))
    /\ UNCHANGED <<store, staged, procs>>

\* Phase 3: check_consensus(panel_name, decision_model) after the loop
ReviewConsensus ==
    /\ Reviewing /\ ~call.running
    /\ Len(call.spawned) = Len(call.members)
    /\ call' = [call EXCEPT !.phase = "checked"]
    /\ store' = [store EXCEPT ![call.queue] = OpenTools(@)]
    /\ result' = Exit(CheckOutcome(store, call.panel,
                                   DecisionModelOf(call.config[call.panel]), call.config))
    /\ UNCHANGED <<staged, procs>>

WriteSchedule_NoPrimary(members) == members

\* coordinate_write_panel: the sessions of Phase 1 (every member) and of
\* Phase 2 (the primary, members[0], once more)
WriteSchedule(members) == members \o <<members[1]>>

WriteExit(code, why) == [kind |-> "exit", code |-> code, outcome |-> why]

\* main, write: coordinate_write_panel reads the panel's entry; exists is
\* whether a file is at artifact_path when the command starts
WriteStart(panel, config, exists) ==
    /\ Idle
    /\ LET c == [op |-> "write", queue |-> PanelQueue(panel), panel |-> panel,
                 config |-> config, members |-> <<>>, spawned |-> <<>>, codes |-> <<>>,
                 running |-> FALSE, phase |-> "aborted", artifact |-> exists]
       IN  IF panel \notin DOMAIN config
           THEN /\ call' = c
                /\ result' = Exit(Raised("ValueError"))
           ELSE IF config[panel].members = <<>>
           THEN /\ call' = [c EXCEPT !.phase = "returned"]
                /\ result' = WriteExit(1, [kind |-> "no-members"])
           ELSE /\ call' = [c EXCEPT !.members = config[panel].members,
                                     !.phase = "spawning"]
                /\ result' = NoResult
    /\ UNCHANGED <<store, staged, procs>>

Writing == call.op = "write" /\ call.phase = "spawning"

\* spawn_panel_member for the next session of the schedule, up to
\* subprocess.run
WriteSpawn ==
    /\ Writing /\ ~call.running
    /\ Len(call.spawned) < Len(WriteSchedule(call.members))
    /\ IF call.config[call.panel].role_type \notin Roles
       THEN /\ call' = [call EXCEPT !.phase = "aborted"]
            /\ result' = Exit(Raised("ValueError"))
       ELSE /\ call' = [call EXCEPT
                            !.spawned = Append(@, WriteSchedule(call.members)[Len(@) + 1]),
                            !.running = TRUE]
            /\ UNCHANGED result
    /\ UNCHANGED <<store, staged, procs>>

\* the running session creates or removes the file at artifact_path
WriteSessionWrites(exists) ==
    /\ Writing /\ call.running
    /\ call.artifact # exists
    /\ call' = [call EXCEPT !.artifact = exists]
    /\ UNCHANGED <<store, result, staged, procs>>

\* subprocess.run returns; the exit code is not read by the coordinator
WriteSessionReturns(code) ==
    /\ Writing /\ call.running
    /\ call' = [call EXCEPT !.codes = Append(@, code), !.running = FALSE]
    /\ UNCHANGED <<store, result, staged, procs>>

\* subprocess.run raises TimeoutExpired: the command fails
WriteSessionTimesOut ==
    /\ Writing /\ call.running
    /\ call' = [call EXCEPT !.running = FALSE, !.phase = "aborted"]
    /\ result' = Exit(Raised("TimeoutExpired"))
    /\ UNCHANGED <<store, staged, procs>>

\* Phase 3: return 0 if Path(artifact_path).exists() else 1
WriteFinish ==
    /\ Writing /\ ~call.running
    /\ Len(call.spawned) = Len(WriteSchedule(call.members))
    /\ call' = [call EXCEPT !.phase = "returned"]
    /\ result' = WriteExit(IF call.artifact THEN 0 ELSE 1,
                           [kind |-> "artifact", exists |-> call.artifact])
    /\ UNCHANGED <<store, staged, procs>>

\* a command of several steps that has not reached its return statement
Running ==
    /\ call.op \in {"review", "write", "run_once", "daemon"}
    /\ call.phase \notin {"checked", "aborted", "returned", "exited"}

(***************************************************************************)
(* The agent daemon of one role.  run_once and run_daemon are sequences of *)
(* steps whose position is kept in call: the phase, the running flag, the  *)
(* session counter and the sessions that have been started and have not    *)
(* exited.  subprocess.run blocks the daemon while its session runs.       *)
(***************************************************************************)
\* role_name and the role's entry: event_types, catchup_days
RoleName == <<"r">>
RoleEventTypes == <<"review-request", "question">>
CatchupSince == <<"7", "d">>

\* return 124 on subprocess.TimeoutExpired
TimeoutCode == 124

PendingCriteria(etype) ==
    Criteria(etype, EmptyText, CatchupSince, "", EmptyText, RoleName, NoLimit)

\* find_pending_messages: one search per event type, the results joined and
\* sorted oldest first; an exception of a search leaves the function
RECURSIVE PendingFrom(_, _, _)
PendingFrom(q, i, acc) ==
    IF i > Len(RoleEventTypes) THEN Listed(SortByTimestampAsc(acc))
    ELSE LET found == SearchOp(q, PendingCriteria(RoleEventTypes[i])) IN
         IF found.kind = "error" THEN found
         ELSE PendingFrom(q, i + 1, acc \o found.items)

FindPending(q) == PendingFrom(OpenTools(q), 1, <<>>)

HasPending_Always(found) == TRUE

\* if messages: the list is not empty
HasPending(found) == found.items # <<>>

Blocked_Never(c) == FALSE

\* subprocess.run has not returned: a session of this process is running
Blocked(c) == c.sessions # {}

\* self.session_count += 1
NextCount(n) == n + 1

AgentExit(code, why) == [kind |-> "exit", code |-> code, outcome |-> why]

AgentCall(op, phase) ==
    [op |-> op, queue |-> "workflow", phase |-> phase, running |-> TRUE,
     session_count |-> 0, sessions |-> {}, codes |-> <<>>, found |-> 0,
     iterations |-> 0, signalled |-> "never"]

\* spawn_session up to subprocess.run: the counter and the new session
Spawned(c) ==
    [c EXCEPT !.session_count = NextCount(@),
              !.sessions = @ \cup {NextCount(c.session_count)}]

IsAgent == call.op \in {"run_once", "daemon"}

\* run_once up to the session: find_pending_messages, return 0 when the list
\* is empty, else spawn_session
RunOnceStart ==
    /\ Idle
    /\ store' = [store EXCEPT !["workflow"] = OpenTools(@)]
    /\ LET found == FindPending(store["workflow"])
           c == AgentCall("run_once", "spawned")
       IN  IF found.kind = "error"
           THEN /\ call' = [c EXCEPT !.phase = "aborted"]
                /\ result' = AgentExit(1, found)
           ELSE IF ~HasPending(found)
           THEN /\ call' = [c EXCEPT !.phase = "returned"]
                /\ result' = AgentExit(0, [kind |-> "nothing-pending"])
           ELSE /\ call' = Spawned([c EXCEPT !.found = Len(found.items)])
                /\ result' = NoResult
    /\ UNCHANGED <<staged, procs>>

\* the session exits, or is killed at the timeout: subprocess.run returns;
\* run_once keeps the exit code, run_daemon does not read it
SessionEnds(code) ==
    /\ IsAgent /\ Running
    /\ \E s \in call.sessions :
          call' = [call EXCEPT !.sessions = @ \ {s},
                              !.codes = IF call.op = "run_once" THEN Append(@, code) ELSE @]
    /\ UNCHANGED <<store, result, staged, procs>>

\* another process delivers a message to the daemon's queue
Deliver(h, bound) ==
    /\ IsAgent /\ Running
    /\ Len(store[call.queue].msgs) < bound
    /\ \E pos \in 1..(Len(store[call.queue].msgs) + 1) :
          store' = [store EXCEPT ![call.queue] = SendOp(@, h, pos).queue]
    /\ UNCHANGED <<call, result, staged, procs>>

\* run_once after the session: the second find_pending_messages, whose count
\* is only logged, and return exit_code
RunOnceFinish ==
    /\ call.op = "run_once" /\ call.phase = "spawned"
    /\ ~Blocked(call)
    /\ LET after == FindPending(store["workflow"]) IN
       IF after.kind = "error"
       THEN /\ call' = [call EXCEPT !.phase = "aborted"]
            /\ result' = AgentExit(1, after)
       ELSE /\ call' = [call EXCEPT !.phase = "returned"]
            /\ result' = AgentExit(call.codes[Len(call.codes)],
                                   [kind |-> "session", after |-> Len(after.items)])
    /\ UNCHANGED <<store, staged, procs>>

\* main, --daemon: run_daemon reaches its loop
DaemonStart ==
    /\ Idle
    /\ call' = AgentCall("daemon", "loop")
    /\ result' = NoResult
    /\ UNCHANGED <<store, staged, procs>>

IsDaemon == call.op = "daemon"

\* signal_handler, on SIGTERM or SIGINT: self.running = False; the handler
\* runs between two instructions of the main thread and returns into it
DaemonSignal ==
    /\ IsDaemon /\ Running
    /\ call.running
    /\ call' = [call EXCEPT !.running = FALSE,
                            !.signalled = IF Blocked(call) THEN "session" ELSE call.phase]
    /\ UNCHANGED <<store, result, staged, procs>>

LoopContinues_Always(c) == TRUE

\* while self.running
LoopContinues(c) == c.running

\* the head of the loop: a new iteration, or 'Daemon shutting down'; polls
\* is the number of iterations the model follows
DaemonLoop(polls) ==
    /\ IsDaemon /\ call.phase = "loop"
    /\ ~Blocked(call)
    /\ IF LoopContinues(call)
       THEN /\ call.iterations < polls
            /\ call' = [call EXCEPT !.phase = "body", !.iterations = @ + 1]
            /\ UNCHANGED result
       ELSE /\ call' = [call EXCEPT !.phase = "exited"]
            /\ result' = AgentExit(0, [kind |-> "shutdown"])
    /\ UNCHANGED <<store, staged, procs>>

\* the key 'i' at the head of the body or during the sleep (which is
\* skipped when running is false): launch_interactive_session, then the
\* next iteration
DaemonInteractive ==
    /\ IsDaemon
    /\ call.phase = "body" \/ (call.phase = "sleep" /\ call.running)
    /\ ~Blocked(call)
    /\ call' = [call EXCEPT !.sessions = @ \cup {0}, !.phase = "loop"]
    /\ UNCHANGED <<store, result, staged, procs>>

\* the body: find_pending_messages, spawn_session when the list is not
\* empty; an exception is logged; then the sleep
DaemonPoll ==
    /\ IsDaemon /\ call.phase = "body"
    /\ ~Blocked(call)
    /\ store' = [store EXCEPT !["workflow"] = OpenTools(@)]
    /\ LET found == FindPending(store["workflow"]) IN
       IF found.kind # "error" /\ HasPending(found)
       THEN call' = Spawned([call EXCEPT !.phase = "sleep", !.found = Len(found.items)])
       ELSE call' = [call EXCEPT !.phase = "sleep", !.found = 0]
    /\ UNCHANGED <<result, staged, procs>>

\* the sleep ends (at once when running is false)
DaemonWakes ==
    /\ IsDaemon /\ call.phase = "sleep"
    /\ ~Blocked(call)
    /\ call' = [call EXCEPT !.phase = "loop"]
    /\ UNCHANGED <<store, result, staged, procs>>


\* EmailTools().read(path): the file of the message with that key, opened by
\* its path; no queue directory is opened or created
ReadOp(q, qid, key) ==
    IF \E i \in 1..Len(q.msgs) : q.msgs[i].key = key
    THEN LET m == q.msgs[CHOOSE i \in 1..Len(q.msgs) : q.msgs[i].key = key]
         IN  [kind |-> "message", headers |-> m.headers,
              metadata |-> [ExtractMetadata(m) EXCEPT !.key = <<qid, key>>]]
    ELSE Raised("FileNotFoundError")

Read(qid, key) ==
    /\ Idle
    /\ call' = [op |-> "read", queue |-> qid, key |-> key]
    /\ result' = ReadOp(store[qid], qid, key)
    /\ UNCHANGED <<store, staged, procs>>

\* outside the program: the file of a stored message becomes unreadable
\* (its permissions or its content), between two commands
Damage(qid, i) ==
    /\ Idle
    /\ i \in 1..Len(store[qid].msgs)
    /\ ~Fails(store[qid].msgs[i])
    /\ store' = [store EXCEPT ![qid].msgs[i] = Unreadable(@)]
    /\ UNCHANGED <<call, result, staged, procs>>

\* main: the command prints its outcome and exits
Return ==
    /\ ~Idle
    /\ ~Running
    /\ call' = NoCall
    /\ result' = NoResult
    /\ UNCHANGED <<store, staged, procs>>

(***************************************************************************)
(* Specification of the query engine: deliveries to the workflow queue,    *)
(* searches and listings of it.                                            *)
(***************************************************************************)
MaxLimit == 2

Text_a == <<"a", "@", "p">>
Text_b == <<"b">>
Text_c == <<"c", "@", "p">>

OlderTime == Now - 2 * SecondsPerDay
NewerTime == Now - SecondsPerHour

QueryHeaders ==
    { Headers("", Text_a, EmptyText, EmptyText, DateAt(t), e, <<>>, "", "", <<>>) :
        t \in {OlderTime, NewerTime}, e \in {"panel-decision", "review-request"} }

Limits == {NoLimit} \cup {Limit(k) : k \in 0..MaxLimit}

QueryInputs ==
    { Criteria(e, EmptyText, s, "", EmptyText, EmptyText, l) :
        e \in {"", "panel-decision"}, s \in {EmptyText, <<"1", "d">>}, l \in Limits }

Next ==
    \/ \E h \in QueryHeaders : Send("workflow", h, MaxQueue)
    \/ \E c \in QueryInputs : Search("workflow", c)
    \/ \E e \in {"", "panel-decision"}, l \in Limits : ListMessages("workflow", e, l)
    \/ Return

Spec == Init /\ [][Next]_vars

\* the metadata of the stored messages that satisfy every criterion of c
MatchSet(q, c) ==
    LET since == IF TruthyText(c.since) THEN ParseSince(c.since) ELSE [ok |-> TRUE, ts |-> 0]
        hasCutoff == TruthyText(c.since) /\ since.ts # 0
    IN  { md \in { ExtractMetadata(q.msgs[i]) : i \in 1..Len(q.msgs) } :
            PassesFilters(md, c, hasCutoff, since.ts) }

ItemSet(items) == { items[i] : i \in 1..Len(items) }

Min(a, b) == IF a < b THEN a ELSE b

IsQuery == call.op \in {"search", "list"} /\ result.kind = "list"

\* C1: a search with limit k >= 1 returns exactly the k matching messages with
\* the largest timestamps (all matches if fewer than k exist): no returned
\* message is older than a matching message that was left out.
C1_LimitKeepsMostRecent ==
    (call.op = "search" /\ result.kind = "list" /\ TruthyLimit(call.criteria.limit)) =>
        LET matches == MatchSet(store[call.queue], call.criteria)
            got == ItemSet(result.items)
        IN  /\ got \subseteq matches
            /\ Len(result.items) = Min(call.criteria.limit.n, Cardinality(matches))
            /\ \A r \in got : \A m \in matches \ got : r.timestamp >= m.timestamp

\* C8: the sequence returned by search is ordered by timestamp descending.
C8_SearchDescending ==
    IsQuery =>
        \A i \in 1..(Len(result.items) - 1) :
            result.items[i].timestamp >= result.items[i + 1].timestamp

\* C8 witness: a search returned a newer message before an older one although
\* the queue iterates the older one first.
C8_Witness ==
    /\ call.op = "search" /\ result.kind = "list"
    /\ Len(result.items) >= 2
    /\ result.items[1].timestamp > result.items[2].timestamp
    /\ \E i, j \in 1..Len(store[call.queue].msgs) :
          /\ i < j
          /\ store[call.queue].msgs[i].key = result.items[2].key
          /\ store[call.queue].msgs[j].key = result.items[1].key

\* every iteration order of the messages in s
Reorderings(s) ==
    LET n == Len(s)
        bij == { f \in [1..n -> 1..n] : \A i, j \in 1..n : f[i] = f[j] => i = j }
    IN  { [i \in 1..n |-> s[f[i]]] : f \in bij }

\* C9: search is deterministic with respect to physical storage order: a queue
\* holding the same messages in any other iteration order gives the same result
\* sequence for the same criteria (stated for searches without an effective
\* limit, where only the order among equal timestamps can differ).
C9_SearchOrderIndependent ==
    (call.op = "search" /\ result.kind = "list" /\ ~TruthyLimit(call.criteria.limit)) =>
        \A ms \in Reorderings(store[call.queue].msgs) :
            SearchOp([dir |-> "maildir", msgs |-> ms], call.criteria) = result

\* C10: for every non-negative limit, 0 included, search and list_messages
\* return at most limit results.
C10_LimitBoundsSize ==
    (IsQuery /\ call.criteria.limit.given) =>
        Len(result.items) <= call.criteria.limit.n

(***************************************************************************)
(* Specification of the thread resolver: deliveries of messages that       *)
(* reply to and reference each other, and get_thread from a seed.          *)
(***************************************************************************)
ThreadHeaders ==
    { Headers(x[1], Text_a, EmptyText, EmptyText, DateAt(x[4]), "", <<>>, "", x[2], x[3]) :
        x \in { <<"1", "", <<>>, OlderTime>>,
                <<"2", "1", <<>>, OlderTime>>,
                <<"2", "1", <<>>, NewerTime>>,
                <<"3", "2", <<>>, OlderTime>>,
                <<"3", "2", <<>>, NewerTime>>,
                <<"4", "", <<"3", "2">>, NewerTime>>,
                <<"9", "", <<>>, NewerTime>>,
                <<"", "", <<>>, NewerTime>> } }

Seeds == {"1", "3"}

NextThread ==
    \/ \E h \in ThreadHeaders : Send("workflow", h, MaxQueue)
    \/ \E seed \in Seeds : GetThread("workflow", seed)
    \/ Return

SpecThread == Init /\ [][NextThread]_vars

\* the non-empty identifiers a message carries
IdsOf(h) == ({h.message_id, h.in_reply_to} \ {""}) \cup Range(h.references)

\* the identifiers reachable from known through messages sharing an identifier
RECURSIVE ReachableIds(_, _)
ReachableIds(msgs, known) ==
    LET more == known \cup UNION { IdsOf(msgs[i].headers) :
                    i \in { j \in 1..Len(msgs) : IdsOf(msgs[j].headers) \cap known # {} } }
    IN  IF more = known THEN known ELSE ReachableIds(msgs, more)

\* the thread of seed: the transitive closure of the identifier relation
ThreadClosure(msgs, seed) ==
    { ExtractMetadata(msgs[i]) :
        i \in { j \in 1..Len(msgs) :
                  IdsOf(msgs[j].headers) \cap ReachableIds(msgs, {seed}) # {} } }

\* C2: get_thread(seed) returns every message in the transitive closure of the
\* identifier / reply-to / references relation from the seed, whatever the
\* iteration order of the queue.
C2_ThreadIsClosure ==
    (call.op = "thread" /\ result.kind = "list") =>
        ThreadClosure(store[call.queue].msgs, call.seed) \subseteq ItemSet(result.items)

\* C11: the result of get_thread is ordered oldest first: along the returned
\* list the timestamps never decrease.
C11_ThreadChronological ==
    (call.op = "thread" /\ result.kind = "list") =>
        \A i \in 1..(Len(result.items) - 1) :
            result.items[i].timestamp <= result.items[i + 1].timestamp

\* a thread whose newer message is met first by the scan and returned last
C11_Witness ==
    /\ call.op = "thread" /\ result.kind = "list"
    /\ \E i, j \in 1..Len(result.items) :
          /\ i < j
          /\ result.items[i].timestamp < result.items[j].timestamp
          /\ result.items[j].key < result.items[i].key
    /\ \E i, j \in 1..Len(store[call.queue].msgs) :
          /\ i < j
          /\ ExtractMetadata(store[call.queue].msgs[i]).timestamp >
                ExtractMetadata(store[call.queue].msgs[j]).timestamp
          /\ ExtractMetadata(store[call.queue].msgs[i]) \in ItemSet(result.items)
          /\ ExtractMetadata(store[call.queue].msgs[j]) \in ItemSet(result.items)

\* C12: get_thread from a non-empty seed returns only messages of the seed's
\* thread: every returned message carries an identifier reachable from the seed
\* through shared identifier / reply-to / references values, and a message that
\* carries no identifier at all is never returned.
C12_ThreadOnlyLinked ==
    (call.op = "thread" /\ result.kind = "list" /\ call.seed # "") =>
        /\ ItemSet(result.items) \subseteq ThreadClosure(store[call.queue].msgs, call.seed)
        /\ \A i \in 1..Len(store[call.queue].msgs) :
              IdsOf(store[call.queue].msgs[i].headers) = {} =>
                  ExtractMetadata(store[call.queue].msgs[i]) \notin ItemSet(result.items)

\* a non-empty thread returned from a queue that also holds a message without
\* identifiers and a message of another thread
C12_Witness ==
    /\ call.op = "thread" /\ result.kind = "list" /\ call.seed # ""
    /\ result.items # <<>>
    /\ \E i, j \in 1..Len(store[call.queue].msgs) :
          /\ IdsOf(store[call.queue].msgs[i].headers) = {}
          /\ store[call.queue].msgs[j].headers.message_id = "9"

(***************************************************************************)
(* Specification of the consensus engine: deliveries to the queue of       *)
(* panel P and consensus checks of it under each decision-model tag.       *)
(***************************************************************************)
Subject_Approve == <<"A", "p", "p", "r", "o", "v", "e", "d">>
Subject_reject == <<"r", "e", "j", "e", "c", "t">>
Subject_fyi == <<"f", "y", "i">>

RecentTime == Now - SecondsPerHour

PanelDecision(from, subject) ==
    Headers("", from, EmptyText, subject, DateAt(RecentTime), "panel-decision", <<>>, "", "", <<>>)

\* votes of three senders, a decision without a vote keyword, and a message
\* that is not a decision
PanelHeaders ==
    { PanelDecision(f, sub) : f \in {Text_a, Text_b}, sub \in {Subject_Approve, Subject_reject} }
    \cup
    { PanelDecision(Text_c, Subject_Approve),
      PanelDecision(Text_a, Subject_fyi),
      Headers("", Text_b, EmptyText, Subject_Approve, DateAt(RecentTime), "review-request",
              <<>>, "", "", <<>>) }

Member_a == <<"a">>
Member_b == <<"b">>
Member_c == <<"c">>

ConfigFull == [p \in {"P"} |-> PanelConfig(<<Member_a, Member_b, Member_c>>)]
ConfigNoMembers == [p \in {"P"} |-> PanelConfig(<<>>)]

\* the decision-model tags tried: the three of the code, the specification's
\* name for the first, and a tag nobody defines
ConsensusInputs ==
    { <<m, ConfigFull>> : m \in {"consensus", "majority", "primary-decides", "unanimous", "ranked"} }
    \cup { <<"primary-decides", ConfigNoMembers>> }

NextConsensus ==
    \/ \E h \in PanelHeaders : Send("P", h, MaxPanelMsgs)
    \/ \E inp \in ConsensusInputs : CheckConsensus("P", inp[1], inp[2])
    \/ Return

SpecConsensus == Init /\ [][NextConsensus]_vars

IsCheck == call.op = "check_consensus"

\* the decision messages the check finds: the stored panel-decision messages
\* of the last seven days
DecisionSet == MatchSet(store[call.queue], DecisionCriteria)

\* the last command was a check under tag m of a panel queue that is a
\* maildir: its scan succeeded, so a per-member vote map exists
CheckedUnder(m) ==
    IsCheck /\ call.model = m /\ store[call.queue].dir = "maildir"

\* the final per-member vote map of the last check
FinalVotes == CollectVotes(SearchOp(store[call.queue], DecisionCriteria).items, 1, <<>>)

VotesIn(d) == { d[i].vote : i \in 1..Len(d) }

\* C3: check_consensus with a decision-model tag that no policy carries fails
\* in every case; it never returns a verdict or no-consensus.
C3_UnknownModelFails ==
    (IsCheck /\ call.model \notin {"consensus", "unanimous", "majority", "primary-decides"}) =>
        result.kind = "error"

C5_StrictMajority ==
    CheckedUnder("majority") =>
        LET d == FinalVotes
            held(v) == Cardinality({ i \in 1..Len(d) : d[i].vote = v })
        IN  /\ \A v \in {"approve", "reject", "request-revision"} :
                  (result = Verdict(v)) <=> (2 * held(v) > Len(d))
            /\ (\A v \in VotesIn(d) : 2 * held(v) <= Len(d)) => result = NoConsensus

\* C5 witness: two of three members approve and one rejects; the verdict is
\* approve.
C5_Witness ==
    /\ CheckedUnder("majority")
    /\ result = Verdict("approve")
    /\ Len(FinalVotes) = 3
    /\ VotesIn(FinalVotes) = {"approve", "reject"}

\* the members with a found decision message carrying a vote
Voters == { MemberName(m.from) : m \in { x \in DecisionSet : VoteOf(x.subject) # "" } }

\* the members with a found decision message voting v
VotersFor(v) == { MemberName(m.from) : m \in { x \in DecisionSet : VoteOf(x.subject) = v } }

\* C14: each member contributes at most one vote, however many decision
\* messages the member sent: the vote map has one entry per voting member, a
\* unanimous verdict v needs every voting member to have voted v, and a
\* majority verdict v needs more than half of the voting members to have
\* voted v.
C14_OneVotePerMember ==
    (CheckedUnder("consensus") \/ CheckedUnder("majority")) =>
        /\ Len(FinalVotes) = Cardinality(Voters)
        /\ \A v \in {"approve", "reject", "request-revision"} :
              result = Verdict(v) =>
                  IF call.model = "consensus"
                  THEN Voters \subseteq VotersFor(v)
                  ELSE 2 * Cardinality(VotersFor(v)) > Cardinality(Voters)

\* one member approved twice, another rejected once: two votes, no majority
C14_Witness ==
    /\ CheckedUnder("majority")
    /\ Cardinality(DecisionSet) = 3
    /\ Cardinality(VotersFor("approve")) = 1
    /\ Cardinality(VotersFor("reject")) = 1
    /\ Cardinality({ m \in DecisionSet : VoteOf(m.subject) = "approve" }) = 2
    /\ result = NoConsensus

\* C6: under 'primary-decides' the check returns the counted vote of the
\* first-listed member when that member has one, and no-consensus when it has
\* none or the panel lists no members.
C6_PrimaryDecides ==
    CheckedUnder("primary-decides") =>
        LET d == FinalVotes
            members == call.config[call.queue].members
            primary == { i \in 1..Len(d) : members # <<>> /\ d[i].member = members[1] }
        IN  IF primary # {}
            THEN \A i \in primary : result = Verdict(d[i].vote)
            ELSE result = NoConsensus

\* C6 witness: the two other members agree, the first-listed member has no
\* counted vote, and the outcome is no-consensus.
C6_Witness ==
    /\ CheckedUnder("primary-decides")
    /\ result = NoConsensus
    /\ call.config[call.queue].members = <<Member_a, Member_b, Member_c>>
    /\ { FinalVotes[i].member : i \in 1..Len(FinalVotes) } = {Member_b, Member_c}
    /\ VotesIn(FinalVotes) = {"approve"}

\* C7: when the panel queue holds no decision message (a queue never written
\* to included), the check returns no-consensus and raises no error.
C7_NoDecisionsNoConsensus ==
    (IsCheck /\ DecisionSet = {}) => result = NoConsensus

(***************************************************************************)
(* Specification of the votes of one member: deliveries of that member's   *)
(* decisions, with one or several keywords in the subject and at two       *)
(* times, and consensus checks of the queue.                               *)
(***************************************************************************)
Subject_Reject_approve == <<"R", "e", "j", "e", "c", "t", " ", "a", "p", "p", "r", "o", "v", "e">>
Subject_Revision_reject == <<"R", "e", "v", "i", "s", "i", "o", "n", " ", "r", "e", "j", "e", "c", "t">>
Subject_Clarification == <<"C", "l", "a", "r", "i", "f", "i", "c", "a", "t", "i", "o", "n">>
Subject_Revision == <<"R", "e", "v", "i", "s", "i", "o", "n">>

EarlierTime == Now - SecondsPerDay

DecisionAt(from, subject, time) ==
    Headers("", from, EmptyText, subject, DateAt(time), "panel-decision", <<>>, "", "", <<>>)

VoteHeaders ==
    { DecisionAt(Text_a, sub, RecentTime) :
        sub \in {Subject_Reject_approve, Subject_Revision_reject, Subject_Clarification,
                 Subject_Revision, Subject_fyi} }
    \cup
    { DecisionAt(Text_a, sub, EarlierTime) : sub \in {Subject_Approve, Subject_reject} }

NextVote ==
    \/ \E h \in VoteHeaders : Send("P", h, MaxPanelMsgs)
    \/ \E m \in {"consensus", "majority"} : CheckConsensus("P", m, ConfigFull)
    \/ Return

SpecVote == Init /\ [][NextVote]_vars

\* the lowercased subject contains the keyword
Contains(word, subject) == IsSubstring(word, Lower(subject))

\* the vote of a subject by the fixed keyword priority; "" without a keyword
PriorityVote(subject) ==
    CASE Contains(Word_approve, subject) -> "approve"
      [] ~Contains(Word_approve, subject) /\ Contains(Word_reject, subject) -> "reject"
      [] /\ ~Contains(Word_approve, subject) /\ ~Contains(Word_reject, subject)
         /\ (Contains(Word_revision, subject) \/ Contains(Word_clarification, subject))
           -> "request-revision"
      [] OTHER -> ""

\* the found decision messages that carry a vote
VoteMsgs == { m \in DecisionSet : PriorityVote(m.subject) # "" }

\* C13: the vote of a decision message follows the fixed keyword priority of its
\* subject: approve if it contains "approve"; else reject if it contains
\* "reject"; else request-revision if it contains "revision" or
\* "clarification"; a check of a queue holding one decision returns that vote,
\* and no-consensus when the subject has none of the keywords.
C13_VoteByPriority ==
    (CheckedUnder("consensus") \/ CheckedUnder("majority")) =>
        \A m \in DecisionSet :
            DecisionSet = {m} =>
                /\ Contains(Word_approve, m.subject) => result = Verdict("approve")
                /\ (~Contains(Word_approve, m.subject) /\ Contains(Word_reject, m.subject))
                      => result = Verdict("reject")
                /\ ( /\ ~Contains(Word_approve, m.subject)
                     /\ ~Contains(Word_reject, m.subject)
                     /\ \/ Contains(Word_revision, m.subject)
                        \/ Contains(Word_clarification, m.subject) )
                      => result = Verdict("request-revision")
                /\ PriorityVote(m.subject) = "" => result = NoConsensus

\* one decision whose subject names "reject" before "approve" counts as approve
C13_Witness ==
    /\ CheckedUnder("consensus")
    /\ \E m \in DecisionSet :
          /\ DecisionSet = {m}
          /\ m.subject = Subject_Reject_approve
    /\ result = Verdict("approve")

\* the oldest message of a non-empty set of messages with distinct timestamps
Oldest(ms) == CHOOSE m \in ms : \A x \in ms : m.timestamp <= x.timestamp

\* C15: when one member has several found decision messages carrying a vote, with
\* pairwise distinct timestamps, the vote counted for the member is the one of
\* the oldest of them: the check of that member's queue returns it.
C15_OldestMessageWins ==
    (CheckedUnder("consensus") \/ CheckedUnder("majority")) =>
        LET ms == VoteMsgs IN
        ( /\ Cardinality(ms) >= 2
          /\ \A x, y \in ms : MemberName(x.from) = MemberName(y.from)
          /\ \A x, y \in ms : x # y => x.timestamp # y.timestamp ) =>
            result = Verdict(PriorityVote(Oldest(ms).subject))

\* the member's newer decision approves, the older one rejects, and the check
\* returns reject
C15_Witness ==
    /\ CheckedUnder("consensus")
    /\ Cardinality(VoteMsgs) = 2
    /\ \E x, y \in VoteMsgs :
          /\ x.timestamp < y.timestamp
          /\ PriorityVote(x.subject) = "reject"
          /\ PriorityVote(y.subject) = "approve"
    /\ result = Verdict("reject")

(***************************************************************************)
(* Specification of the store under every operation: deliveries to the     *)
(* workflow queue and to the panel queue, and each reading operation.      *)
(***************************************************************************)
StoreHeaders ==
    { Headers("1", Text_a, EmptyText, Subject_Approve, DateAt(RecentTime), "panel-decision",
              <<>>, "", "", <<>>),
      Headers("2", Text_b, EmptyText, Subject_reject, DateAt(EarlierTime), "panel-decision",
              <<>>, "", "1", <<>>) }

NextStore ==
    \/ \E h \in StoreHeaders : Send("workflow", h, MaxQueue)
    \/ Send("P", PanelDecision(Text_a, Subject_Approve), MaxPanelMsgs)
    \/ Search("workflow", Criteria("panel-decision", EmptyText, EmptyText, "", EmptyText,
                                   EmptyText, Limit(1)))
    \/ ListMessages("workflow", "", NoLimit)
    \/ GetThread("workflow", "1")
    \/ \E key \in 1..MaxQueue : Read("workflow", key)
    \/ CheckConsensus("P", "majority", ConfigFull)
    \/ Return

SpecStore == Init /\ [][NextStore]_vars

\* C19: stored messages are immutable and never deleted: every step keeps each
\* stored message with its key and content, the steps of search, list_messages,
\* get_thread, read and check_consensus leave every queue's messages exactly as
\* they were, and a send adds one message to its queue and none elsewhere.
C19_StoredImmutable ==
    [][ \A q \in QueueIds :
          /\ Range(store[q].msgs) \subseteq Range(store'[q].msgs)
          /\ call'.op # "send" => store'[q].msgs = store[q].msgs
          /\ call'.op = "send" =>
                Len(store'[q].msgs) =
                    Len(store[q].msgs) +
                        (IF q = call'.queue /\ result'.kind = "key" THEN 1 ELSE 0) ]_vars

\* a reading operation has run on a queue that holds several messages
C19_Witness ==
    /\ call.op \in {"search", "list", "thread", "read", "check_consensus"}
    /\ result.kind # "error"
    /\ Len(store[call.queue].msgs) >= 2

(***************************************************************************)
(* Specification of scans over a queue with unreadable messages:           *)
(* deliveries of a small thread, damage to stored files, and the scans of  *)
(* search and get_thread.                                                  *)
(***************************************************************************)
SkipHeaders ==
    { Headers(x[1], Text_a, EmptyText, EmptyText, DateAt(x[3]), "review-request", <<>>, "",
              x[2], <<>>) :
        x \in { <<"1", "", OlderTime>>, <<"2", "1", NewerTime>>, <<"3", "2", RecentTime>> } }

SkipInputs ==
    { Criteria("review-request", EmptyText, s, "", EmptyText, EmptyText, l) :
        s \in {EmptyText, <<"1", "d">>}, l \in {NoLimit, Limit(1)} }

NextSkip ==
    \/ \E h \in SkipHeaders : Send("workflow", h, MaxQueue)
    \/ \E i \in 1..MaxQueue : Damage("workflow", i)
    \/ \E c \in SkipInputs : Search("workflow", c)
    \/ \E seed \in Seeds : GetThread("workflow", seed)
    \/ Return

SpecSkip == Init /\ [][NextSkip]_vars

Readable(m) == ~Fails(m)

\* the queue without the messages whose processing fails
ReadablePart(q) == [q EXCEPT !.msgs = SelectSeq(q.msgs, Readable)]

\* C20: a message whose processing fails during a scan is skipped: search and
\* get_thread on a maildir still return a list, without raising, and it is the
\* result they give for the other messages of the queue alone; for a search
\* without limit it holds exactly the other messages that match.
C20_FailedMessageSkipped ==
    (call.op \in {"search", "thread"} /\ store[call.queue].dir = "maildir") =>
        LET good == ReadablePart(store[call.queue]) IN
        /\ call.op = "search" =>
              /\ result = SearchOp(good, call.criteria)
              /\ ~TruthyLimit(call.criteria.limit) =>
                    /\ result.kind = "list"
                    /\ ItemSet(result.items) = MatchSet(good, call.criteria)
        /\ call.op = "thread" =>
              /\ result.kind = "list"
              /\ result = ThreadOp(good, call.seed)
              /\ ItemSet(result.items) \subseteq ThreadClosure(good.msgs, call.seed)

\* a search met an unreadable message before a readable one and returned the
\* readable one
C20_Witness ==
    /\ call.op = "search" /\ result.kind = "list"
    /\ result.items # <<>>
    /\ \E i, j \in 1..Len(store[call.queue].msgs) :
          /\ i < j
          /\ Fails(store[call.queue].msgs[i])
          /\ ~Fails(store[call.queue].msgs[j])
          /\ ExtractMetadata(store[call.queue].msgs[j]) \in ItemSet(result.items)

(***************************************************************************)
(* Specification of concurrent access to the workflow queue: two send      *)
(* commands and scans by a third process, each a sequence of file-system   *)
(* steps of EmailTools and of mailbox.Maildir that interleave freely.      *)
(* A file is its key, its headers and the number of chunks written.        *)
(***************************************************************************)
FileChunks == 2

WQ == "workflow"

\* Maildir._create_tmp: time, process id, per-process count and host name; the
\* two senders read the same clock value and differ in their process id
Uniq(w) == <<Now, w>>

WriterHeaders ==
    [w \in Writers |->
        IF w = "w1"
        THEN Headers("1", Text_a, EmptyText, EmptyText, DateAt(OlderTime), "review-request",
                     <<>>, "", "", <<>>)
        ELSE Headers("2", Text_b, EmptyText, EmptyText, DateAt(NewerTime), "review-request",
                     <<>>, "", "1", <<>>)]

StagedFile(key, h, n) == [key |-> key, headers |-> h, written |-> n]

Complete(f) == f.written = FileChunks

Finished(res) == [pc |-> "done", result |-> res]

\* Maildir.__init__(create=True) makes the directory, then tmp, new and cur
NextDir(dir) ==
    CASE dir = "bare" -> "tmp"
      [] dir = "tmp" -> "tmpnew"
      [] OTHER -> "maildir"

\* send: Maildir(path, create=True) tests whether the directory exists
SendOpen(w) ==
    /\ procs[w].pc = "start"
    /\ procs' = [procs EXCEPT ![w] =
                    [pc |-> IF store[WQ].dir = "absent" THEN "mkdir" ELSE "create_tmp"]]
    /\ UNCHANGED <<store, call, result, staged>>

\* os.mkdir(path): fails when the directory has appeared meanwhile
SendMkdir(w) ==
    /\ procs[w].pc = "mkdir"
    /\ IF store[WQ].dir = "absent"
       THEN /\ store' = [store EXCEPT ![WQ].dir = "bare"]
            /\ procs' = [procs EXCEPT ![w] = [pc |-> "mksub"]]
       ELSE /\ procs' = [procs EXCEPT ![w] = Finished(Raised("FileExistsError"))]
            /\ UNCHANGED store
    /\ UNCHANGED <<call, result, staged>>

\* os.mkdir of the next of tmp, new, cur
SendMksub(w) ==
    /\ procs[w].pc = "mksub"
    /\ store' = [store EXCEPT ![WQ].dir = NextDir(@)]
    /\ procs' = [procs EXCEPT ![w] =
                    [pc |-> IF NextDir(store[WQ].dir) = "maildir" THEN "create_tmp" ELSE "mksub"]]
    /\ UNCHANGED <<call, result, staged>>

\* Maildir._create_tmp: an exclusive create of tmp/<uniq>
SendCreateTmp(w) ==
    /\ procs[w].pc = "create_tmp"
    /\ IF store[WQ].dir = "bare"
       THEN /\ procs' = [procs EXCEPT ![w] = Finished(Raised("FileNotFoundError"))]
            /\ UNCHANGED staged
       ELSE IF \E f \in staged : f.key = Uniq(w)
       THEN /\ procs' = [procs EXCEPT ![w] = Finished(Raised("ExternalClashError"))]
            /\ UNCHANGED staged
       ELSE /\ staged' = staged \cup {StagedFile(Uniq(w), WriterHeaders[w], 0)}
            /\ procs' = [procs EXCEPT ![w] = [pc |-> "write", key |-> Uniq(w)]]
    /\ UNCHANGED <<store, call, result>>

\* Maildir._dump_message: the next chunk reaches the file under tmp/
SendWrite(w) ==
    /\ procs[w].pc = "write"
    /\ \E f \in staged :
          /\ f.key = procs[w].key
          /\ ~Complete(f)
          /\ staged' = (staged \ {f}) \cup {StagedFile(f.key, f.headers, f.written + 1)}
    /\ UNCHANGED <<store, call, result, procs>>

StagedReady_Early(f) == TRUE

\* Maildir.add: the file is written out and closed before it is linked
StagedReady(f) == Complete(f)

\* os.link(tmp/<uniq>, new/<uniq>): one step makes the file visible, at the
\* place os.listdir will yield it; on failure the file under tmp/ is removed
SendLink(w) ==
    /\ procs[w].pc = "write"
    /\ \E f \in staged :
          /\ f.key = procs[w].key
          /\ StagedReady(f)
          /\ IF store[WQ].dir = "tmp"
             THEN /\ staged' = staged \ {f}
                  /\ procs' = [procs EXCEPT ![w] = Finished(Raised("FileNotFoundError"))]
                  /\ UNCHANGED store
             ELSE IF \E i \in 1..Len(store[WQ].msgs) : store[WQ].msgs[i].key = f.key
             THEN /\ staged' = staged \ {f}
                  /\ procs' = [procs EXCEPT ![w] = Finished(Raised("ExternalClashError"))]
                  /\ UNCHANGED store
             ELSE /\ \E pos \in 1..(Len(store[WQ].msgs) + 1) :
                        store' = [store EXCEPT ![WQ].msgs = InsertAt(@, pos, f)]
                  /\ procs' = [procs EXCEPT ![w] = [pc |-> "unlink", key |-> f.key]]
                  /\ UNCHANGED staged
    /\ UNCHANGED <<call, result>>

\* os.remove(tmp/<uniq>), mbox.close(), return str(key)
SendUnlink(w) ==
    /\ procs[w].pc = "unlink"
    /\ staged' = { f \in staged : f.key # procs[w].key }
    /\ procs' = [procs EXCEPT ![w] = Finished([kind |-> "key", key |-> procs[w].key])]
    /\ UNCHANGED <<store, call, result>>

\* the keys that send commands have returned so far
ReturnedKeys ==
    { procs[w].result.key :
        w \in { x \in Writers : procs[x].pc = "done" /\ procs[x].result.kind = "key" } }

\* a scan command starts (search or get_thread): EmailTools(path) creates a
\* missing directory; sent records the sends that have returned by now
ScanOpen(r, op) ==
    /\ procs[r].pc \in {"start", "done"}
    /\ store' = [store EXCEPT ![WQ] = OpenTools(@)]
    /\ procs' = [procs EXCEPT ![r] = [pc |-> "list", op |-> op, sent |-> ReturnedKeys]]
    /\ UNCHANGED <<call, result, staged>>

\* mbox.keys(): the names under new/ and cur/ at this moment
Listing(q) == [i \in 1..Len(q.msgs) |-> q.msgs[i].key]

ScanList(r) ==
    /\ procs[r].pc = "list"
    /\ procs' = [procs EXCEPT ![r] =
                    IF store[WQ].dir # "maildir"
                    THEN [pc |-> "done", op |-> @.op, sent |-> @.sent, observed |-> <<>>,
                          result |-> Raised("FileNotFoundError")]
                    ELSE [pc |-> "scan", op |-> @.op, sent |-> @.sent,
                          keys |-> Listing(store[WQ]), observed |-> <<>>]]
    /\ UNCHANGED <<store, call, result, staged>>

\* mbox[key]: the file under that name is opened and read as it is now
ScanRead(r) ==
    /\ procs[r].pc = "scan"
    /\ procs[r].keys # <<>>
    /\ \E i \in 1..Len(store[WQ].msgs) :
          /\ store[WQ].msgs[i].key = Head(procs[r].keys)
          /\ procs' = [procs EXCEPT ![r].keys = Tail(@),
                                    ![r].observed = Append(@, store[WQ].msgs[i])]
    /\ UNCHANGED <<store, call, result, staged>>

NoCriteria == Criteria("", EmptyText, EmptyText, "", EmptyText, EmptyText, NoLimit)

\* the loop has ended: the messages read are filtered, sorted and returned
ScanFinish(r) ==
    /\ procs[r].pc = "scan"
    /\ procs[r].keys = <<>>
    /\ procs' = [procs EXCEPT ![r] =
                    [pc |-> "done", op |-> @.op, sent |-> @.sent, observed |-> @.observed,
                     result |->
                        IF @.op = "search"
                        THEN SearchOp([dir |-> "maildir", msgs |-> @.observed], NoCriteria)
                        ELSE ThreadOp([dir |-> "maildir", msgs |-> @.observed], "1")]]
    /\ UNCHANGED <<store, call, result, staged>>

NextConcurrent ==
    \/ \E w \in Writers : SendOpen(w)
    \/ \E w \in Writers : SendMkdir(w)
    \/ \E w \in Writers : SendMksub(w)
    \/ \E w \in Writers : SendCreateTmp(w)
    \/ \E w \in Writers : SendWrite(w)
    \/ \E w \in Writers : SendLink(w)
    \/ \E w \in Writers : SendUnlink(w)
    \/ \E r \in Readers, op \in {"search", "thread"} : ScanOpen(r, op)
    \/ \E r \in Readers : ScanList(r)
    \/ \E r \in Readers : ScanRead(r)
    \/ \E r \in Readers : ScanFinish(r)

SpecConcurrent == Init /\ [][NextConcurrent]_vars

SendsDone == \A w \in Writers : procs[w].pc = "done"

\* C16: two concurrent sends to the same queue, in any interleaving, never
\* return the same key, and once both have ended the queue holds no fewer than
\* two messages.  Stated for runs in which no scan has started.
C16_ConcurrentSendsSafe ==
    /\ \A w1, w2 \in Writers :
          ( /\ w1 # w2
            /\ procs[w1].pc = "done" /\ procs[w1].result.kind = "key"
            /\ procs[w2].pc = "done" /\ procs[w2].result.kind = "key" ) =>
              procs[w1].result.key # procs[w2].result.key
    /\ (SendsDone /\ \A r \in Readers : procs[r] = NotStarted) =>
          Len(store[WQ].msgs) >= 2

\* C17: a scan that interleaves with sends never observes a partially written
\* message: every file visible in the queue, and every file a scan has read, is
\* complete and carries the headers its sender gave it.
C17_NoPartialObserved ==
    /\ \A i \in 1..Len(store[WQ].msgs) : Complete(store[WQ].msgs[i])
    /\ \A r \in Readers :
          procs[r].pc \in {"scan", "done"} =>
              \A i \in 1..Len(procs[r].observed) :
                  /\ Complete(procs[r].observed[i])
                  /\ \E w \in Writers :
                        procs[r].observed[i] =
                            StagedFile(Uniq(w), WriterHeaders[w], FileChunks)

\* a scan has read one sender's message while the other sender's file is still
\* partly written under tmp/
C17_Witness ==
    \E r \in Readers :
        /\ procs[r].pc = "scan"
        /\ procs[r].observed # <<>>
        /\ \E f \in staged : ~Complete(f) /\ f.written > 0

KeysOf(msgs) == { msgs[i].key : i \in 1..Len(msgs) }

\* C18: every message whose send had returned when a scan started is observed
\* by that scan: the scan does not fail, reads the message, and a search
\* returns it.  This holds of every scan, so a message missed by the scan
\* during which it was sent is observed by each scan that starts later.
C18_SentBeforeScanObserved ==
    \A r \in Readers :
        procs[r].pc = "done" =>
            \A k \in procs[r].sent :
                /\ procs[r].result.kind = "list"
                /\ k \in KeysOf(procs[r].observed)
                /\ procs[r].op = "search" => k \in KeysOf(procs[r].result.items)

(***************************************************************************)
(* Specification of the since filter: deliveries of messages dated at      *)
(* several times or not dated at all, and searches with relative,          *)
(* absolute, empty and malformed since values.                             *)
(***************************************************************************)
TwoHoursAgo == Now - 2 * SecondsPerHour

SinceHeaders ==
    { Headers("", Text_a, EmptyText, EmptyText, d, "review-request", <<>>, "", "", <<>>) :
        d \in {BadDate, DateAt(OlderTime), DateAt(TwoHoursAgo), DateAt(NewerTime)} }

SinceValues ==
    { EmptyText, <<"1", "d">>, <<"2", "h">>, <<"9", "0", "m">>, <<"0", "d">>,
      <<"3", "0", "d">>, <<"9", "9", "9", "9", "9", "9", "d">>, <<"7", "x">> } \cup IsoDates

SinceInputs ==
    { Criteria("", EmptyText, s, "", EmptyText, EmptyText, l) :
        s \in SinceValues, l \in {NoLimit, Limit(1)} }

NextSince ==
    \/ \E h \in SinceHeaders : Send("workflow", h, MaxQueue)
    \/ \E c \in SinceInputs : Search("workflow", c)
    \/ Return

SpecSince == Init /\ [][NextSince]_vars

\* the last command was a search of a queue that is a maildir
SearchedMaildir == call.op = "search" /\ store[call.queue].dir = "maildir"

AllMetadata(q) == { ExtractMetadata(q.msgs[i]) : i \in 1..Len(q.msgs) }

Malformed(s) == ~IsRelativeSince(s) /\ s \notin IsoDates

\* C22: a search whose since value is neither a relative window nor a parsable
\* absolute date, the empty string included, fails with a validation error and
\* returns no result.
C22_MalformedSinceFails ==
    (SearchedMaildir /\ Malformed(call.criteria.since)) => result = Raised("ValueError")

\* C23: for a relative since value of N days, hours or minutes the search
\* succeeds, and without a limit it keeps exactly the messages whose timestamp
\* is not below the current time minus N units.
C23_RelativeCutoff ==
    (SearchedMaildir /\ IsRelativeSince(call.criteria.since)
        /\ ~TruthyLimit(call.criteria.limit)) =>
        /\ result.kind = "list"
        /\ LET s == call.criteria.since
               cutoff == Now - IntOf(SubSeq(s, 1, Len(s) - 1)) * UnitSeconds(s[Len(s)])
           IN  ItemSet(result.items) =
                  { md \in AllMetadata(store[call.queue]) : md.timestamp >= cutoff }

(***************************************************************************)
(* Specification of the search criteria: deliveries of messages that       *)
(* differ in every filtered header, and searches with each combination of  *)
(* supplied and absent criteria.                                           *)
(***************************************************************************)
MaxFilterQueue == 2

Art_full == <<"p", "r", "o", "j", "e", "c", "t", "-", "m", "e", "t", "a", "/", "s", "p", "e", "c", "s", "/", "a", "u", "t", "h", ".", "m", "d">>
Art_auth == <<"a", "u", "t", "h", ".", "m", "d">>
Art_login == <<"l", "o", "g", "i", "n", ".", "m", "d">>
Art_specs_auth == <<"s", "p", "e", "c", "s", "/", "a", "u", "t", "h", ".", "m", "d">>

Prefix_a == <<"a">>
Prefix_b == <<"b">>

FilterHeaders ==
    { Headers("", Text_a, Text_b, EmptyText, DateAt(NewerTime), "review-request",
              <<Art_full>>, "approved", "", <<>>),
      Headers("", Text_b, Text_a, EmptyText, DateAt(OlderTime), "review",
              <<Art_login>>, "", "", <<>>),
      Headers("", Text_a, Text_b, EmptyText, DateAt(NewerTime), "",
              <<>>, "approved", "", <<>>),
      Headers("", Text_a, Text_b, EmptyText, DateAt(OlderTime), "review-request-2",
              <<Art_login, Art_auth>>, "draft", "", <<>>) }

FilterInputs ==
    { Criteria(e, a, s, st, f, t, NoLimit) :
        e \in {"", "review-request", "review"},
        a \in {EmptyText, Art_auth, Art_specs_auth},
        s \in {EmptyText, <<"1", "d">>},
        st \in {"", "approved"},
        f \in {EmptyText, Prefix_a},
        t \in {EmptyText, Prefix_b} }

NextFilter ==
    \/ \E h \in FilterHeaders : Send("workflow", h, MaxFilterQueue)
    \/ \E c \in FilterInputs : Search("workflow", c)
    \/ Return

SpecFilter == Init /\ [][NextFilter]_vars

\* artifact entry a and filter f: one is a substring of the other
Contained(f, a) == IsSubstring(f, a) \/ IsSubstring(a, f)

\* the message satisfies every criterion that c supplies
SatisfiesAll(md, c) ==
    /\ c.event_type # "" => md.event_type = c.event_type
    /\ c.artifact # EmptyText =>
          \E i \in 1..Len(md.artifacts) : Contained(c.artifact, md.artifacts[i])
    /\ c.since # EmptyText => md.timestamp >= ParseSince(c.since).ts
    /\ c.state # "" => md.workflow_state = c.state
    /\ c.from_role # EmptyText => StartsWith(md.from, c.from_role)
    /\ c.to_role # EmptyText => StartsWith(md.to, c.to_role)

\* C24: the criteria are combined by AND: a search without limit returns, each
\* once, exactly the stored messages that satisfy every supplied criterion.
C24_CriteriaConjunction ==
    (SearchedMaildir /\ ~TruthyLimit(call.criteria.limit)) =>
        /\ result.kind = "list"
        /\ ItemSet(result.items) =
              { md \in AllMetadata(store[call.queue]) : SatisfiesAll(md, call.criteria) }
        /\ Len(result.items) = Cardinality(ItemSet(result.items))

\* a search with all six criteria supplied returned one of two stored messages
C24_Witness ==
    /\ SearchedMaildir /\ result.kind = "list"
    /\ call.criteria.event_type # "" /\ call.criteria.artifact # EmptyText
    /\ call.criteria.since # EmptyText /\ call.criteria.state # ""
    /\ call.criteria.from_role # EmptyText /\ call.criteria.to_role # EmptyText
    /\ Len(store[call.queue].msgs) = 2
    /\ Len(result.items) = 1

\* C25: a search with an event-type filter returns only messages whose
\* event-type tag equals the filter; a tag that contains the filter, is
\* contained in it, or is empty is never returned.
C25_EventTypeExact ==
    (SearchedMaildir /\ result.kind = "list" /\ call.criteria.event_type # "") =>
        \A i \in 1..Len(result.items) :
            result.items[i].event_type = call.criteria.event_type

\* the filter 'review-request' returned the message tagged so and not the
\* stored message tagged 'review-request-2'
C25_Witness ==
    /\ SearchedMaildir /\ result.kind = "list"
    /\ call.criteria.event_type = "review-request"
    /\ Len(result.items) = 1
    /\ \E i \in 1..Len(store[call.queue].msgs) :
          store[call.queue].msgs[i].headers.event_type = "review-request-2"

OnlyArtifact(c) ==
    /\ c.artifact # EmptyText /\ c.event_type = "" /\ c.since = EmptyText
    /\ c.state = "" /\ c.from_role = EmptyText /\ c.to_role = EmptyText

\* C26: the artifact criterion is symmetric containment: a search by artifact
\* filter f alone returns exactly the messages with an artifact entry a such
\* that f is a substring of a or a is a substring of f, and no search with an
\* artifact filter returns a message without artifact entries.
C26_ArtifactSymmetric ==
    (SearchedMaildir /\ result.kind = "list" /\ call.criteria.artifact # EmptyText) =>
        /\ \A i \in 1..Len(result.items) : result.items[i].artifacts # <<>>
        /\ OnlyArtifact(call.criteria) =>
              ItemSet(result.items) =
                  { md \in AllMetadata(store[call.queue]) :
                      \E i \in 1..Len(md.artifacts) :
                          Contained(call.criteria.artifact, md.artifacts[i]) }

\* the filter 'specs/auth.md' returned the message whose artifact 'auth.md' it
\* contains, and the filter matched no 'login.md'-only message
C26_Witness ==
    /\ SearchedMaildir /\ result.kind = "list"
    /\ OnlyArtifact(call.criteria)
    /\ call.criteria.artifact = Art_specs_auth
    /\ \E i \in 1..Len(result.items) : result.items[i].artifacts = <<Art_login, Art_auth>>
    /\ \E i \in 1..Len(store[call.queue].msgs) :
          /\ store[call.queue].msgs[i].headers.artifacts = <<Art_login>>
          /\ ExtractMetadata(store[call.queue].msgs[i]) \notin ItemSet(result.items)

(***************************************************************************)
(* Scans of a queue that does not exist, under SpecStore.                  *)
(***************************************************************************)
ScansMissing ==
    /\ call'.op \in {"search", "thread"}
    /\ call.op = "none"
    /\ store[call'.queue].dir = "absent"

\* C27: a search or get_thread on a queue that does not exist fails with an
\* error and leaves the store unchanged: the queue is not created.
C27_MissingQueueUntouched ==
    [][ScansMissing => (result'.kind = "error" /\ store' = store)]_vars

(***************************************************************************)
(* Specification of two panels and the shared workflow queue: decisions    *)
(* are delivered to each of the three queues, and either panel is checked. *)
(***************************************************************************)
MaxIsolated == 2

Panels == {"P", "Q"}

ConfigPanels == [p \in Panels |-> PanelConfig(<<Member_a, Member_b>>)]

OwnDecisions == {PanelDecision(Text_a, Subject_Approve), PanelDecision(Text_b, Subject_reject)}
OtherDecisions == {PanelDecision(Text_a, Subject_reject)}

NextPanels ==
    \/ \E h \in OwnDecisions : Send("P", h, MaxIsolated)
    \/ \E h \in OtherDecisions : Send("Q", h, MaxIsolated)
    \/ \E h \in OtherDecisions : Send("workflow", h, MaxIsolated)
    \/ \E p \in Panels, m \in {"consensus", "majority"} : CheckConsensus(p, m, ConfigPanels)
    \/ Return

SpecPanels == Init /\ [][NextPanels]_vars

\* contents another queue may have
OtherContents ==
    {EmptyQueue}
    \cup { [dir |-> "maildir", msgs |-> <<Stored(1, h)>>] :
              h \in {PanelDecision(Text_a, Subject_Approve), PanelDecision(Text_b, Subject_reject)} }

\* the stores that agree with the current one on the queue of panel p
SameQueue(p) ==
    { [q \in QueueIds |-> IF q = p THEN store[p] ELSE other[q]] :
          other \in [QueueIds -> OtherContents] }

\* C28: the outcome of check_consensus for a panel depends only on that
\* panel's own queue: it is the outcome of the same check against every store
\* that agrees on the panel's queue, whatever the other panel's queue and the
\* workflow queue hold.
C28_PanelIsolated ==
    IsCheck =>
        \A st \in SameQueue(call.panel) :
            CheckOutcome(st, call.panel, call.model, call.config) = result

\* panel P is approved while the other panel's queue and the workflow queue
\* each hold a rejection
C28_Witness ==
    /\ IsCheck /\ call.panel = "P"
    /\ result = Verdict("approve")
    /\ store["Q"].msgs # <<>>
    /\ store["workflow"].msgs # <<>>

(***************************************************************************)
(* Specification of the panel commands: reviews of panel P under four      *)
(* configurations, member sessions that deliver decisions and return or    *)
(* time out, and the check-consensus command.                              *)
(***************************************************************************)
MaxReviewMsgs == 2

ReviewConfigs ==
    { [p \in {"P"} |-> ReviewPanel(<<Member_b, Member_a>>, "spec-reviewer", "majority")],
      [p \in {"P"} |-> ReviewPanelDefault(<<Member_a, Member_b>>, "spec-reviewer")],
      [p \in {"P"} |-> ReviewPanel(<<Member_a>>, "spec-reviewer", "primary-decides")],
      [p \in {"P"} |-> ReviewPanel(<<Member_a>>, "architect", "consensus")],
      [p \in {"Q"} |-> ReviewPanel(<<>>, "spec-reviewer", "consensus")] }

ReviewDecisions ==
    { PanelDecision(Text_a, Subject_Approve),
      PanelDecision(Text_b, Subject_Approve),
      PanelDecision(Text_b, Subject_reject),
      PanelDecision(Text_a, Subject_Revision) }

NextReview ==
    \/ \E cfg \in ReviewConfigs : ReviewStart("P", cfg)
    \/ SpawnMember
    \/ \E h \in ReviewDecisions : MemberSend(h, MaxReviewMsgs)
    \/ \E code \in {0, 1} : MemberReturns(code)
    \/ MemberTimesOut
    \/ ReviewConsensus
    \/ \E cfg \in ReviewConfigs : CheckConsensusCommand("P", cfg)
    \/ Return

SpecReview == Init /\ [][NextReview]_vars

Exited == call.op \in {"review", "check-consensus"} /\ result.kind = "exit"

IsReview == call.op = "review"

Checked == IsReview /\ call.phase = "checked"

\* C30: in a review the members are spawned in the panel's listed order, each
\* once and only after the previous session returned; the consensus check
\* runs only after every member was spawned and returned, whatever the exit
\* codes, and under the decision model of the panel's entry.
C30_ReviewOrder ==
    IsReview =>
        /\ Len(call.spawned) <= Len(call.members)
        /\ call.spawned = SubSeq(call.members, 1, Len(call.spawned))
        /\ call.phase = "spawning" =>
              Len(call.codes) = Len(call.spawned) - (IF call.running THEN 1 ELSE 0)
        /\ Checked =>
              /\ call.spawned = call.members
              /\ Len(call.codes) = Len(call.members)
              /\ ~call.running
              /\ result.kind = "exit"
              /\ LET pc == call.config[call.panel]
                     model == IF "decision_model" \in DOMAIN pc
                              THEN pc.decision_model ELSE "consensus"
                 IN  result.outcome =
                        ConsensusOp(store[call.panel], call.config, call.panel, model)

\* a review of two members whose first session exited with 1 reached its
\* check, under the configured model 'majority', with a verdict
C30_Witness ==
    /\ Checked
    /\ call.members = <<Member_b, Member_a>>
    /\ call.spawned = <<Member_b, Member_a>>
    /\ call.codes[1] = 1
    /\ call.config[call.panel].decision_model = "majority"
    /\ result.outcome.kind = "verdict"

(***************************************************************************)
(* Specification of the writing panel: write commands for panel P under    *)
(* five configurations, with the artifact present or absent at the start,  *)
(* sessions that create or remove it, return or time out.                  *)
(***************************************************************************)
WriteConfigs ==
    { [p \in {"P"} |-> ReviewPanel(<<Member_b, Member_a, Member_c>>, "spec-reviewer", "consensus")],
      [p \in {"P"} |-> ReviewPanel(<<Member_a>>, "spec-reviewer", "consensus")],
      [p \in {"P"} |-> ReviewPanel(<<>>, "spec-reviewer", "consensus")],
      [p \in {"P"} |-> ReviewPanel(<<Member_a, Member_b>>, "architect", "consensus")],
      [p \in {"Q"} |-> ReviewPanel(<<Member_a>>, "spec-reviewer", "consensus")] }

NextWrite ==
    \/ \E cfg \in WriteConfigs, e \in BOOLEAN : WriteStart("P", cfg, e)
    \/ WriteSpawn
    \/ \E e \in BOOLEAN : WriteSessionWrites(e)
    \/ \E code \in {0, 1} : WriteSessionReturns(code)
    \/ WriteSessionTimesOut
    \/ WriteFinish
    \/ Return

SpecWrite == Init /\ [][NextWrite]_vars

IsWrite == call.op = "write"

\* C31: a write with an empty member list returns 1 and spawns no session;
\* otherwise the sessions are, in this order and one at a time, every member
\* in listed order and then the first-listed member once more, and the write
\* returns 0 exactly when the artifact exists after the last session.
C31_WriteSchedule ==
    IsWrite =>
        LET listed == call.config[call.panel].members
            planned == IF listed = <<>> THEN <<>> ELSE Append(listed, listed[1])
        IN  call.panel \in DOMAIN call.config =>
              /\ Len(call.spawned) <= Len(planned)
              /\ call.spawned = SubSeq(planned, 1, Len(call.spawned))
              /\ listed = <<>> =>
                    call.phase = "returned" /\ result.kind = "exit" /\ result.code = 1
              /\ (call.phase = "returned" /\ listed # <<>>) =>
                    /\ call.spawned = planned
                    /\ Len(call.codes) = Len(planned)
                    /\ result.kind = "exit"
                    /\ result.code = (IF call.artifact THEN 0 ELSE 1)

\* a write by three members ran four sessions, the last by the first-listed
\* member, one session exited with 1, and the write returned 0
C31_Witness ==
    /\ IsWrite /\ call.phase = "returned"
    /\ call.spawned = <<Member_b, Member_a, Member_c, Member_b>>
    /\ 1 \in {call.codes[i] : i \in 1..Len(call.codes)}
    /\ call.artifact /\ result.code = 0

(***************************************************************************)
(* Who has voted, under SpecConsensus.                                     *)
(***************************************************************************)
\* C35: under the all-must-agree policy a verdict is returned only when every
\* listed member of the panel has a counted vote.
C35_AllMembersVoted ==
    (CheckedUnder("consensus") /\ result.kind = "verdict") =>
        \A i \in 1..Len(call.config[call.panel].members) :
            call.config[call.panel].members[i] \in Voters

(***************************************************************************)
(* Specification of the ballot: a panel of two members, and decisions of a *)
(* member, of a sender who is no member, without a vote keyword, older     *)
(* than the window of the check, and without a date.                       *)
(***************************************************************************)
MaxBallot == 2

\* since='7d' of check_consensus
WindowDays == 7

Text_d == <<"d", "@", "p">>

BeforeWindow == Now - (WindowDays + 1) * SecondsPerDay

BallotDecision(from, subject, date) ==
    Headers("", from, EmptyText, subject, date, "panel-decision", <<>>, "", "", <<>>)

Ballot_Approve == BallotDecision(Text_a, Subject_Approve, DateAt(RecentTime))
Ballot_Outsider == BallotDecision(Text_d, Subject_reject, DateAt(RecentTime))
Ballot_Blank == BallotDecision(Text_a, Subject_fyi, DateAt(RecentTime))
Ballot_Old == BallotDecision(Text_b, Subject_reject, DateAt(BeforeWindow))
Ballot_Undated == BallotDecision(Text_b, Subject_reject, BadDate)

BallotHeaders == {Ballot_Approve, Ballot_Outsider, Ballot_Blank, Ballot_Old, Ballot_Undated}

ConfigBallot == [p \in {"P"} |-> PanelConfig(<<Member_a, Member_b>>)]

NextBallot ==
    \/ \E h \in BallotHeaders : Send("P", h, MaxBallot)
    \/ \E m \in {"consensus", "majority"} : CheckConsensus("P", m, ConfigBallot)
    \/ Return

SpecBallot == Init /\ [][NextBallot]_vars

\* the queue q without the stored messages that do not satisfy Keep
Kept(q, Keep(_)) == [q EXCEPT !.msgs = SelectSeq(q.msgs, Keep)]

\* the outcome of the last check, had the queue been q
OutcomeOn(q) == ConsensusOp(q, call.config, call.panel, call.model)

FromMember(m) ==
    \E i \in 1..Len(call.config[call.panel].members) :
        call.config[call.panel].members[i] = MemberName(m.headers.from)

\* C34: under the all-must-agree and majority policies only decisions whose
\* sender is a listed member of the panel are counted: the outcome is the
\* outcome on the queue without the messages of every other sender.
C34_OnlyMembersCounted ==
    (CheckedUnder("consensus") \/ CheckedUnder("majority")) =>
        result = OutcomeOn(Kept(store[call.queue], FromMember))

InWindow(m) ==
    m.headers.date.parsable /\ m.headers.date.epoch >= Now - 7 * 86400

IsDecision(m) == m.headers.event_type = "panel-decision"

\* C36: check_consensus counts only the decisions dated within the 7 days
\* before the call: the outcome is the outcome on the queue without the older
\* and the undated messages, and a queue whose decisions are all older or
\* undated gives no-consensus.
C36_SevenDayWindow ==
    (IsCheck /\ store[call.queue].dir = "maildir") =>
        LET q == store[call.queue] IN
        /\ result = OutcomeOn(Kept(q, InWindow))
        /\ (\A i \in 1..Len(q.msgs) : IsDecision(q.msgs[i]) => ~InWindow(q.msgs[i]))
              => result = NoConsensus

\* the queue holds a rejection older than seven days and an undated
\* rejection, and nothing else: no consensus
C36_Witness ==
    /\ IsCheck /\ result = NoConsensus
    /\ { store[call.queue].msgs[i].headers : i \in 1..Len(store[call.queue].msgs) }
          = {Ballot_Old, Ballot_Undated}

HasKeyword(m) ==
    \E w \in {Word_approve, Word_reject, Word_revision, Word_clarification} :
        IsSubstring(w, Lower(m.headers.subject))

\* C37: a decision whose subject holds no vote keyword contributes no vote and
\* leaves the vote map as it is: the outcome is the outcome on the queue
\* without such messages, and when no message yields a vote the outcome is
\* no-consensus.
C37_BlankDecisionIgnored ==
    (IsCheck /\ store[call.queue].dir = "maildir") =>
        LET q == store[call.queue] IN
        /\ result = OutcomeOn(Kept(q, HasKeyword))
        /\ (\A i \in 1..Len(q.msgs) : ~HasKeyword(q.msgs[i])) => result = NoConsensus

\* a member's approval is scanned first, the same member's decision without a
\* keyword after it: the approval stands
C37_Witness ==
    /\ IsCheck /\ call.model = "consensus"
    /\ Len(store[call.queue].msgs) = 2
    /\ store[call.queue].msgs[1].headers = Ballot_Approve
    /\ store[call.queue].msgs[2].headers = Ballot_Blank
    /\ result = Verdict("approve")

(***************************************************************************)
(* Panels without a decision_model tag, under SpecReview.                  *)
(***************************************************************************)
\* the last command evaluated the consensus of a panel whose entry has no
\* decision_model key
CheckedUntagged ==
    /\ call.op = "check-consensus" \/ Checked
    /\ call.panel \in DOMAIN call.config
    /\ "decision_model" \notin DOMAIN call.config[call.panel]

\* C39: a panel whose entry carries no decision_model is evaluated under the
\* all-must-agree policy, by a review and by the check-consensus command: the
\* outcome is that of the 'consensus' policy on the panel's queue, and the
\* entry is not rejected.
C39_DefaultConsensus ==
    CheckedUntagged =>
        /\ result.kind = "exit"
        /\ result.outcome # Raised("ValueError")
        /\ result.outcome = ConsensusOp(store[call.queue], call.config, call.panel, "consensus")
        /\ store[call.queue].dir = "maildir" =>
              LET votes == CollectVotes(SearchOp(store[call.queue], DecisionCriteria).items, 1, <<>>)
              IN  \A v \in {"approve", "reject", "request-revision"} :
                    result.outcome = Verdict(v) <=>
                        (votes # <<>> /\ \A i \in 1..Len(votes) : votes[i].vote = v)

\* the check-consensus command on an untagged panel whose first-listed member
\* approved and whose other member rejected: no consensus
C39_Witness ==
    /\ CheckedUntagged /\ call.op = "check-consensus"
    /\ result.kind = "exit" /\ result.outcome = NoConsensus
    /\ { store[call.queue].msgs[i].headers : i \in 1..Len(store[call.queue].msgs) }
          = {PanelDecision(Text_a, Subject_Approve), PanelDecision(Text_b, Subject_reject)}

(***************************************************************************)
(* Specification of run_once: deliveries to the workflow queue before and  *)
(* during the run, of messages for the role and for another recipient.     *)
(***************************************************************************)
MaxInbox == 2

InboxMessage(to, etype, t) ==
    Headers("", Text_a, to, EmptyText, DateAt(t), etype, <<>>, "", "", <<>>)

InboxHeaders ==
    { InboxMessage(RoleName, "review-request", RecentTime),
      InboxMessage(RoleName, "question", EarlierTime),
      InboxMessage(Text_b, "review-request", RecentTime) }

SessionCodes == {0, 1, TimeoutCode}

NextOnce ==
    \/ \E h \in InboxHeaders : Send("workflow", h, MaxInbox)
    \/ RunOnceStart
    \/ \E h \in InboxHeaders : Deliver(h, MaxInbox)
    \/ \E code \in SessionCodes : SessionEnds(code)
    \/ RunOnceFinish
    \/ Return

SpecOnce == Init /\ [][NextOnce]_vars

\* the stored messages that are pending for the role: addressed to it, of an
\* event type it handles, dated within the catch-up days
PendingNow ==
    { i \in 1..Len(store["workflow"].msgs) :
        LET h == store["workflow"].msgs[i].headers IN
        /\ h.event_type \in {"review-request", "question"}
        /\ StartsWith(h.to, <<"r">>)
        /\ h.date.parsable /\ h.date.epoch >= Now - 7 * 86400 }

IsOnce == call.op = "run_once"

\* C32: run_once starts one session when a pending message is found and none,
\* returning 0, when none is found; it never starts a second session, also
\* when more messages are pending after the session than before it, and it
\* returns the session's exit code.
C32_RunOnce ==
    IsOnce =>
        /\ call.session_count \in {0, 1}
        /\ Len(call.codes) <= call.session_count
        /\ Cardinality(call.sessions) + Len(call.codes) = call.session_count
        /\ call.session_count = 1 <=> call.found > 0
        /\ (call.phase = "returned" /\ call.session_count = 0) =>
              /\ PendingNow = {}
              /\ result.code = 0
        /\ (call.phase = "returned" /\ call.session_count = 1) =>
              /\ call.sessions = {}
              /\ result.code = call.codes[1]
              /\ Cardinality(PendingNow) = result.outcome.after

\* one message was pending, two are pending after the session, which exited
\* with 1: one session, exit code 1
C32_Witness ==
    /\ IsOnce /\ call.phase = "returned"
    /\ call.found = 1 /\ result.outcome.kind = "session" /\ result.outcome.after = 2
    /\ call.session_count = 1
    /\ result.code = 1

(***************************************************************************)
(* Specification of run_daemon: the loop, its sessions, the key that asks  *)
(* for an interactive session, the shutdown signal, and deliveries to the  *)
(* workflow queue.  SpecDaemonFair adds what the shutdown relies on: the   *)
(* daemon's process keeps running and every session terminates.           *)
(***************************************************************************)
MaxPolls == 2

NextDaemon ==
    \/ \E h \in InboxHeaders : Send("workflow", h, MaxInbox)
    \/ DaemonStart
    \/ DaemonSignal
    \/ DaemonLoop(MaxPolls)
    \/ DaemonInteractive
    \/ DaemonPoll
    \/ DaemonWakes
    \/ \E code \in {0, TimeoutCode} : SessionEnds(code)
    \/ \E h \in InboxHeaders : Deliver(h, MaxInbox)
    \/ Return

SpecDaemon == Init /\ [][NextDaemon]_vars

\* the shutdown is followed on a queue of at most MaxShutdownInbox messages,
\* delivered before the daemon starts
MaxShutdownInbox == 1

NextShutdown ==
    \/ Send("workflow", InboxMessage(RoleName, "review-request", RecentTime), MaxShutdownInbox)
    \/ DaemonStart
    \/ DaemonSignal
    \/ DaemonLoop(MaxPolls)
    \/ DaemonInteractive
    \/ DaemonPoll
    \/ DaemonWakes
    \/ SessionEnds(0)
    \/ Return

\* the daemon's own steps: its process is scheduled
DaemonProcess == DaemonLoop(MaxPolls) \/ DaemonPoll \/ DaemonWakes

SpecDaemonFair ==
    /\ Init /\ [][NextShutdown]_vars
    /\ WF_vars(DaemonProcess)
    /\ WF_vars(SessionEnds(0))

\* a step of the running daemon
DaemonStep == call.op = "daemon" /\ call'.op = "daemon"

\* the step is a poll: the body's find_pending_messages and what follows it
PollStep == DaemonStep /\ call.phase = "body" /\ call'.phase = "sleep"

\* C38: a daemon never has two sessions running: a poll or a spawn happens
\* only when no session is running, every spawn raises session_count by
\* exactly one, and a poll spawns one session exactly when messages are
\* pending and none otherwise.
C38_OneSessionAtATime ==
    [][ /\ call'.op = "daemon" => Cardinality(call'.sessions) <= 1
        /\ DaemonStep =>
              /\ call'.session_count \in {call.session_count, call.session_count + 1}
              /\ call'.session_count # call.session_count =>
                    /\ PollStep
                    /\ call'.sessions = {call'.session_count}
              /\ PollStep =>
                    /\ call.sessions = {}
                    /\ call'.session_count = call.session_count + 1
                          <=> (PendingNow # {} /\ store["workflow"].dir = "maildir")
      ]_vars

\* the second session of a daemon is running, the first has exited
C38_Witness ==
    /\ call.op = "daemon"
    /\ call.session_count = 2
    /\ call.sessions = {2}

\* C33: once a signal has set running to false the daemon's loop exits,
\* given that the daemon keeps running and its sessions terminate; the signal
\* changes nothing but the flag, so the body in progress goes on, and no
\* iteration starts while running is false.
C33_CooperativeShutdown ==
    /\ (call.op = "daemon" /\ ~call.running) ~> (call.op = "daemon" /\ call.phase = "exited")
    /\ [][ (DaemonStep /\ call.running /\ ~call'.running) =>
              /\ call' = [call EXCEPT !.running = FALSE, !.signalled = call'.signalled]
              /\ store' = store /\ result' = result ]_vars
    /\ [][ (DaemonStep /\ call'.iterations # call.iterations) => call.running ]_vars

\* the signal arrived while a session was running; the session ended, the
\* daemon finished the iteration and left the loop
C33_Witness ==
    /\ call.op = "daemon" /\ call.phase = "exited"
    /\ call.signalled = "session"
    /\ call.session_count = 1
    /\ call.sessions = {}

====
